---- MODULE Spec2Model ----
(***************************************************************************)
(* Recommendation orchestration pipeline of LIBER (backend/app):           *)
(*   - AIAgentService.process_b2c_message   (services/ai_agent.py)         *)
(*   - FineTunedWineSelector                (services/fine_tuned_selector) *)
(*   - AIAgentService._extract_recommended_wines, _create_wine_journeys    *)
(* Text is a sequence of one-character strings, positions are 0-based as   *)
(* in Python, prices are in euro cents (Numeric(10, 2) columns).           *)
(***************************************************************************)
EXTENDS Integers, Sequences, FiniteSets, TLC

\* ------------------------------------------------------------------------
\* Bounds of the model
\* ------------------------------------------------------------------------
\* number of products of the venue
NumProducts == 4
\* longest "wines" list the selection model returns
MaxModelWines == 2
\* largest number of journeys the selection model returns
MaxModelJourneys == 4
\* longest text handed to the mention extractor, in words
MaxTokens == 3
\* largest target bottle count asked for
MaxBottles == 4
\* longest wine list handed to the journey constructor
MaxJourneyList == 8
\* longest wine list of two requests that build journeys at the same time
MaxSharedList == 3

None == "None"

\* ------------------------------------------------------------------------
\* Python str, as sequences of characters
\* ------------------------------------------------------------------------
Upper == <<"A","B","C","D","E","F","G","H","I","J","K","L","M",
           "N","O","P","Q","R","S","T","U","V","W","X","Y","Z">>
LowerLetters == <<"a","b","c","d","e","f","g","h","i","j","k","l","m",
           "n","o","p","q","r","s","t","u","v","w","x","y","z">>

\* str.lower() of one character
LowerChar(c) ==
    IF \E i \in 1..26 : Upper[i] = c
    THEN LowerLetters[CHOOSE i \in 1..26 : Upper[i] = c]
    ELSE c

Lower(s) == [i \in 1..Len(s) |-> LowerChar(s[i])]

\* code point order of the characters used (space < upper case < lower case < euro)
CharCode(c) ==
    IF c = " " THEN 0
    ELSE IF \E i \in 1..26 : Upper[i] = c
         THEN CHOOSE i \in 1..26 : Upper[i] = c
    ELSE IF \E i \in 1..26 : LowerLetters[i] = c
         THEN 26 + (CHOOSE i \in 1..26 : LowerLetters[i] = c)
    ELSE 100

IsSpace(c) == c = " "

\* \w of the re module: letters (digits and "_" do not occur in the model's texts)
IsWordChar(c) == \E i \in 1..26 : Upper[i] = c \/ LowerLetters[i] = c

\* s[max(0, a):b], a and b 0-based, b clamped as Python does
Slice(s, a, b) ==
    LET lo == IF a < 0 THEN 0 ELSE IF a > Len(s) THEN Len(s) ELSE a
        hi == IF b < 0 THEN 0 ELSE IF b > Len(s) THEN Len(s) ELSE b
    IN  IF hi <= lo THEN << >> ELSE SubSeq(s, lo + 1, hi)

\* sub occurs in s at the 0-based position p
OccursAt(s, sub, p) ==
    /\ p >= 0
    /\ p + Len(sub) <= Len(s)
    /\ \A i \in 1..Len(sub) : s[p + i] = sub[i]

\* str.find: the lowest position of sub in s, -1 when there is none
Find(s, sub) ==
    LET hits == {p \in 0..Len(s) : OccursAt(s, sub, p)}
    IN  IF hits = {} THEN -1
        ELSE CHOOSE p \in hits : \A q \in hits : p <= q

\* the "in" operator on str
Contains(s, sub) == Find(s, sub) >= 0

\* str.strip()
Strip(s) ==
    LET keep == {i \in 1..Len(s) : ~IsSpace(s[i])}
    IN  IF keep = {} THEN << >>
        ELSE LET first == CHOOSE i \in keep : \A j \in keep : i <= j
                 last  == CHOOSE i \in keep : \A j \in keep : i >= j
             IN  SubSeq(s, first, last)

\* str.split(): the maximal runs of non-space characters, in order
RECURSIVE SplitFrom(_, _)
SplitFrom(s, i) ==
    IF i > Len(s) THEN << >>
    ELSE IF IsSpace(s[i]) THEN SplitFrom(s, i + 1)
    ELSE LET ends == {j \in i..Len(s) : j = Len(s) \/ IsSpace(s[j + 1])}
             e    == CHOOSE j \in ends : \A k \in ends : j <= k
         IN  <<SubSeq(s, i, e)>> \o SplitFrom(s, e + 1)

Split(s) == SplitFrom(s, 1)

\* lexicographic order of two strings by code point
RECURSIVE StrLess(_, _)
StrLess(s, t) ==
    IF Len(t) = 0 THEN FALSE
    ELSE IF Len(s) = 0 THEN TRUE
    ELSE IF CharCode(s[1]) # CharCode(t[1]) THEN CharCode(s[1]) < CharCode(t[1])
    ELSE StrLess(Tail(s), Tail(t))

\* the elements of a sequence
Range(f) == {f[i] : i \in DOMAIN f}

\* the subsequence of s of the elements that satisfy Test
SelectIdx(s, keep) ==
    LET RECURSIVE Go(_)
        Go(i) == IF i > Len(s) THEN << >>
                 ELSE IF i \in keep THEN <<s[i]>> \o Go(i + 1) ELSE Go(i + 1)
    IN  Go(1)

\* ------------------------------------------------------------------------
\* The venue's products (models/product.py)
\* ------------------------------------------------------------------------
ProductIds == 1..NumProducts

ProductNames == <<
    <<"B","a","r","o","l","o">>,
    <<"B","a","r","o","l","o"," ","R","i","s","e","r","v","a">>,
    <<"S","o","a","v","e">>,
    <<"C","h","i","a","n","t","i"," ","C","l","a","s","s","i","c","o">>,
    <<"E","t","n","a"," ","B","i","a","n","c","o">>,
    <<"V","i","n","o"," ","R","o","s","s","o">> >>

ProductTypes == <<"red", "red", "white", "red", "white", "rose">>

\* price column, in cents
ProductPrices == <<1800, 2500, 3000, 1380, 2300, 4600>>

\* Product.to_dict(): the fields of a wine the pipeline reads
Product(id) ==
    [id |-> id, name |-> ProductNames[id], type |-> ProductTypes[id],
     price |-> ProductPrices[id]]

\* order_by(Product.type, Product.name)
ProductBefore(a, b) ==
    \/ ProductTypes[a] # ProductTypes[b] /\ ProductTypes[a] = "red"
    \/ ProductTypes[a] # ProductTypes[b] /\ ProductTypes[a] = "rose" /\ ProductTypes[b] = "white"
    \/ ProductTypes[a] = ProductTypes[b] /\ StrLess(ProductNames[a], ProductNames[b])

\* the rows of a query in its order_by order
RECURSIVE OrderedRows(_)
OrderedRows(S) ==
    IF S = {} THEN << >>
    ELSE LET first == CHOOSE a \in S : \A b \in S \ {a} : ProductBefore(a, b)
         IN  <<Product(first)>> \o OrderedRows(S \ {first})

\* ------------------------------------------------------------------------
\* FineTunedWineSelector._validate_and_enrich_result
\* (services/fine_tuned_selector.py)
\* A missing or None id is NoId, a missing or None rank is NoRank, a rank
\* int() cannot convert is BadRank, a missing or None name is << >>.
\* The "best" value the model returns is "True", "False" (also when it is
\* missing) or "Truthy" (a value that is true in a test but is not True).
\* ------------------------------------------------------------------------
NoId == 0
NoRank == -1
BadRank == -2

Truthy(b) == b # "False"

\* wine_by_id / wine_by_name and the lookup by id first, then by name:
\* the index in all_wines of the wine found, 0 when there is none
FindWine(all_wines, wine_id, wine_name) ==
    LET byId   == {i \in DOMAIN all_wines : all_wines[i].id # NoId /\ all_wines[i].id = wine_id}
        key    == Lower(Strip(wine_name))
        byName == {i \in DOMAIN all_wines :
                      /\ all_wines[i].name # << >>
                      /\ Lower(Strip(all_wines[i].name)) = key}
        Last(S) == CHOOSE i \in S : \A j \in S : j <= i
    IN  IF wine_id # NoId /\ byId # {} THEN Last(byId)
        ELSE IF wine_name # << >> /\ byName # {} THEN Last(byName)
        ELSE 0

\* the wine of the catalog an entry of the model resolves to (0: none)
Resolve(all_wines, wine_data) ==
    IF wine_data.isdict THEN FindWine(all_wines, wine_data.id, wine_data.name) ELSE 0

\* EnrichWines with the name taken from the model's entry
RECURSIVE EnrichWines_ModelName(_, _, _)
EnrichWines_ModelName(wines, all_wines, acc) ==
    IF wines = << >> THEN acc
    ELSE LET wine_data == Head(wines)
             k == Resolve(all_wines, wine_data)
         IN  IF k = 0 THEN EnrichWines_ModelName(Tail(wines), all_wines, acc)
             ELSE EnrichWines_ModelName(Tail(wines), all_wines,
                    Append(acc, [id     |-> all_wines[k].id,
                                 name   |-> wine_data.name,
                                 price  |-> all_wines[k].price,
                                 type   |-> all_wines[k].type,
                                 reason |-> wine_data.reason,
                                 rank   |-> IF wine_data.rank = NoRank
                                            THEN Len(acc) + 1 ELSE wine_data.rank,
                                 best   |-> wine_data.best]))

\* the loop over result_json['wines']: resolved entries, enriched from the catalog
RECURSIVE EnrichWines(_, _, _)
EnrichWines(wines, all_wines, acc) ==
    IF wines = << >> THEN acc
    ELSE LET wine_data == Head(wines)
             k == Resolve(all_wines, wine_data)
         IN  IF k = 0 THEN EnrichWines(Tail(wines), all_wines, acc)
             ELSE EnrichWines(Tail(wines), all_wines,
                    Append(acc, [id     |-> all_wines[k].id,
                                 name   |-> all_wines[k].name,
                                 price  |-> all_wines[k].price,
                                 type   |-> all_wines[k].type,
                                 reason |-> wine_data.reason,
                                 rank   |-> IF wine_data.rank = NoRank
                                            THEN Len(acc) + 1 ELSE wine_data.rank,
                                 best   |-> wine_data.best]))

\* list.sort(key=rank): stable
RECURSIVE SortByRank(_)
SortByRank(ws) ==
    IF ws = << >> THEN << >>
    ELSE LET m    == CHOOSE i \in DOMAIN ws :
                        /\ \A j \in DOMAIN ws : ws[i].rank <= ws[j].rank
                        /\ \A j \in 1..(i - 1) : ws[j].rank # ws[i].rank
             rest == SelectIdx(ws, DOMAIN ws \ {m})
         IN  <<ws[m]>> \o SortByRank(rest)

\* "Remove duplicates by ID (keep first occurrence with lower rank)"
UniqueById(ws) ==
    SelectIdx(ws, {i \in DOMAIN ws :
                     /\ ws[i].id # NoId
                     /\ \A j \in 1..(i - 1) : ws[j].id # ws[i].id})

\* one round of the loop over featured_wines (lines 324-344)
PrioritizeFeatured(ws, featured_id) ==
    LET at == {i \in DOMAIN ws : ws[i].id = featured_id}
    IN  IF at = {} THEN ws
        ELSE LET f == CHOOSE i \in at : \A j \in at : i <= j
             IN  IF ws[f].rank = 1 /\ ~Truthy(ws[f].best)
                 THEN [i \in DOMAIN ws |->
                         IF i = f THEN [ws[i] EXCEPT !.best = "True"]
                         ELSE IF Truthy(ws[i].best) THEN [ws[i] EXCEPT !.best = "False"]
                         ELSE ws[i]]
                 ELSE ws

RECURSIVE PrioritizeAllFeatured(_, _)
PrioritizeAllFeatured(ws, featured_wines) ==
    IF featured_wines = << >> THEN ws
    ELSE PrioritizeAllFeatured(PrioritizeFeatured(ws, Head(featured_wines)),
                               Tail(featured_wines))

\* "Ensure exactly one wine has best=true (the one with rank 1)" (lines 346-381)
EnsureOneBest(ws, featured_wines) ==
    LET wines_with_best == {i \in DOMAIN ws : ws[i].best = "True"}
        rank_1          == {i \in DOMAIN ws : ws[i].rank = 1}
        featured_best   == {i \in DOMAIN ws :
                              Truthy(ws[i].best) /\ ws[i].id \in Range(featured_wines)}
        First(S)        == CHOOSE i \in S : \A j \in S : i <= j
    IN  IF rank_1 # {}
        THEN IF ~Truthy(ws[First(rank_1)].best)
             THEN [i \in DOMAIN ws |->
                     [ws[i] EXCEPT !.best = IF i = First(rank_1) THEN "True" ELSE "False"]]
             ELSE ws
        ELSE IF Cardinality(wines_with_best) = 0
        THEN IF ws # << >>
             THEN [i \in DOMAIN ws |-> IF i = 1 THEN [ws[i] EXCEPT !.best = "True"] ELSE ws[i]]
             ELSE ws
        ELSE IF Cardinality(wines_with_best) > 1
        THEN IF featured_best # {}
             THEN [i \in DOMAIN ws |->
                     IF Truthy(ws[i].best) /\ ws[i].id # ws[First(featured_best)].id
                     THEN [ws[i] EXCEPT !.best = "False"] ELSE ws[i]]
             ELSE [i \in DOMAIN ws |->
                     IF Truthy(ws[i].best) /\ i > 1
                     THEN [ws[i] EXCEPT !.best = "False"] ELSE ws[i]]
        ELSE ws

\* sorted(all_wines, key=price): stable
RECURSIVE SortByPrice(_)
SortByPrice(ws) ==
    IF ws = << >> THEN << >>
    ELSE LET m    == CHOOSE i \in DOMAIN ws :
                        /\ \A j \in DOMAIN ws : ws[i].price <= ws[j].price
                        /\ \A j \in 1..(i - 1) : ws[j].price # ws[i].price
             rest == SelectIdx(ws, DOMAIN ws \ {m})
         IN  <<ws[m]>> \o SortByPrice(rest)

FallbackReason == "Vino disponibile nella carta."

\* FallbackRanking in the order of the catalog, not sorted by price
FallbackRanking_CatalogOrder(all_wines) ==
    [idx \in DOMAIN all_wines |->
        [id     |-> all_wines[idx].id,
         name   |-> all_wines[idx].name,
         price  |-> all_wines[idx].price,
         type   |-> all_wines[idx].type,
         reason |-> FallbackReason,
         rank   |-> idx,
         best   |-> IF idx = 1 THEN "True" ELSE "False"]]

\* "create fallback ranking: order by price (ascending) and assign ranks" (lines 400-416)
FallbackRanking(all_wines) ==
    LET sorted_wines == SortByPrice(all_wines)
    IN  [idx \in DOMAIN sorted_wines |->
            [id     |-> sorted_wines[idx].id,
             name   |-> sorted_wines[idx].name,
             price  |-> sorted_wines[idx].price,
             type   |-> sorted_wines[idx].type,
             reason |-> FallbackReason,
             rank   |-> idx,
             best   |-> IF idx = 1 THEN "True" ELSE "False"]]

\* the single-mode branch (lines 254-381 and 391-423)
ValidateSingle(result_json, all_wines, journey_preference, featured_wines) ==
    LET wines    == IF result_json.wines_is_list THEN result_json.wines ELSE << >>
        enriched == EnrichWines(wines, all_wines, << >>)
        unique   == UniqueById(SortByRank(enriched))
        featured == IF featured_wines # << >> /\ journey_preference = "single"
                    THEN PrioritizeAllFeatured(unique, featured_wines) ELSE unique
        repaired == EnsureOneBest(featured, featured_wines)
    IN  IF repaired = << >>
        THEN IF all_wines # << >> THEN FallbackRanking(all_wines) ELSE << >>
        ELSE repaired

\* the loop over journey['wines'] (lines 198-222): resolved entries, enriched
RECURSIVE EnrichJourneyWines(_, _)
EnrichJourneyWines(wines_data, all_wines) ==
    IF wines_data = << >> THEN << >>
    ELSE LET k == Resolve(all_wines, Head(wines_data))
             rest == EnrichJourneyWines(Tail(wines_data), all_wines)
         IN  IF k = 0 THEN rest
             ELSE <<[id    |-> all_wines[k].id,
                     name  |-> all_wines[k].name,
                     price |-> all_wines[k].price,
                     type  |-> all_wines[k].type]>> \o rest

\* the loop over result_json['journeys'] (lines 188-239)
RECURSIVE AcceptJourneys(_, _, _, _)
AcceptJourneys(journeys, all_wines, bottles_count, acc) ==
    IF journeys = << >> THEN acc
    ELSE LET journey == Head(journeys)
             journey_wines == IF journey.isdict /\ journey.wines_is_list
                              THEN EnrichJourneyWines(journey.wines, all_wines)
                              ELSE << >>
             skip == \/ journey_wines = << >>
                     \/ bottles_count # 0 /\ Len(journey_wines) # bottles_count
         IN  IF skip THEN AcceptJourneys(Tail(journeys), all_wines, bottles_count, acc)
             ELSE AcceptJourneys(Tail(journeys), all_wines, bottles_count,
                    Append(acc, [id     |-> Len(acc) + 1,
                                 reason |-> journey.reason,
                                 wines  |-> journey_wines]))

\* the journey branch (lines 180-252 and 384-390); bottles_count 0 is None
ValidateJourneys(result_json, all_wines, bottles_count) ==
    LET journeys == IF result_json.journeys_is_list THEN result_json.journeys ELSE << >>
        accepted == AcceptJourneys(journeys, all_wines, bottles_count, << >>)
        kept     == IF Len(accepted) > 3 THEN SubSeq(accepted, 1, 3) ELSE accepted
    IN  IF Len(kept) < 2 THEN << >> ELSE kept

\* int(rank) raises for a rank that is no number (line 293)
ValidateRaises(result_json, all_wines, journey_preference) ==
    /\ journey_preference # "journey"
    /\ result_json.wines_is_list
    /\ \E i \in DOMAIN result_json.wines :
          /\ Resolve(all_wines, result_json.wines[i]) # 0
          /\ result_json.wines[i].rank = BadRank

\* _validate_and_enrich_result: {'wines': [...], 'journeys': [...]}
ValidateAndEnrich(result_json, all_wines, journey_preference, bottles_count, featured_wines) ==
    IF journey_preference = "journey"
    THEN [wines |-> << >>,
          journeys |-> ValidateJourneys(result_json, all_wines, bottles_count)]
    ELSE [wines |-> ValidateSingle(result_json, all_wines, journey_preference, featured_wines),
          journeys |-> << >>]

\* ------------------------------------------------------------------------
\* AIAgentService._extract_recommended_wines (services/ai_agent.py)
\* A score is the fraction num / den.
\* ------------------------------------------------------------------------
ExactScore == 100
PartialMax == 50
ContextScore == 20
AcceptAbove == 80
PartWindow == 10
ContextWindow == 30

\* the letters-only entries of the list of tokens dropped from a name (line 923)
StopWords == { <<"d","o","c">>, <<"i","g","p">>, <<"d","o","p">>, <<"d","e","l">>,
               <<"d","i">>, <<"l","a">>, <<"l","e">>, <<"i","l">> }

Euro == <<"€">>
WineIndicators == { <<"v","i","n","o">>,
                    <<"e","t","i","c","h","e","t","t","a">>,
                    <<"b","o","t","t","i","g","l","i","a">> }

\* re.finditer(r'\b' + word + r'\b', text): the start positions of word as a whole word
WholeWordStarts(text, word) ==
    {p \in 0..Len(text) :
        /\ OccursAt(text, word, p)
        /\ (p = 0 \/ ~IsWordChar(text[p]))
        /\ (p + Len(word) = Len(text) \/ ~IsWordChar(text[p + Len(word) + 1]))}

\* name_parts: the significant words of a name (lines 921-923)
NameParts(wine_name) ==
    LET ws == Split(wine_name)
    IN  SelectIdx(ws, {i \in DOMAIN ws : Len(ws[i]) > 3 /\ Lower(ws[i]) \notin StopWords})

\* Strategy 1: exact name match (lines 907-917)
ExactMatch(response_lower, wine_name_lower) ==
    LET position == Find(response_lower, wine_name_lower)
    IN  IF position >= 0
        THEN [position |-> position, num |-> ExactScore, den |-> 1]
        ELSE [position |-> -1, num |-> 0, den |-> 1]

\* matching_parts: where the significant words occur as whole words (lines 924-932)
MatchingParts(response_lower, name_parts) ==
    UNION {WholeWordStarts(response_lower, Lower(name_parts[i])) : i \in DOMAIN name_parts}

\* matched_parts_count: the words found within PartWindow of a match (lines 938-940)
MatchedParts(response_lower, name_parts, matching_parts) ==
    {Lower(name_parts[i]) : i \in
        {i \in DOMAIN name_parts :
            \E pos \in matching_parts :
                Contains(Slice(response_lower, pos - PartWindow,
                               pos + Len(name_parts[i]) + PartWindow),
                         Lower(name_parts[i]))}}

\* Strategy 2: match by significant words, when the exact match failed (lines 919-943)
PartsMatch(s1, response_lower, name_parts, matching_parts) ==
    IF s1.num < PartialMax * s1.den /\ matching_parts # {}
    THEN [position |-> CHOOSE p \in matching_parts : \A q \in matching_parts : p <= q,
          num |-> Cardinality(MatchedParts(response_lower, name_parts, matching_parts))
                      * PartialMax,
          den |-> Len(name_parts)]
    ELSE s1

\* the text around the first long word (lines 953-954)
ContextAround(response_lower, word_lower, word_pos) ==
    Slice(response_lower, word_pos - ContextWindow,
          word_pos + Len(word_lower) + ContextWindow)

\* the long word is near a price or a wine indicator (line 955)
NearIndicator(context_around) ==
    \/ Contains(context_around, Euro)
    \/ \E k \in WineIndicators : Contains(context_around, k)

\* Strategy 3: first long word near a price or a wine indicator (lines 945-957)
ContextMatch(s2, response_lower, ws, long) ==
    IF s2.num < ContextScore * s2.den /\ long # {}
    THEN LET word_lower == Lower(ws[CHOOSE i \in long : \A j \in long : i <= j])
             word_pos   == Find(response_lower, word_lower)
         IN  IF /\ word_pos >= 0
                /\ NearIndicator(ContextAround(response_lower, word_lower, word_pos))
             THEN [position |-> word_pos, num |-> ContextScore, den |-> 1]
             ELSE s2
    ELSE s2

\* the three strategies on the lower-case text and the stripped name
MatchOfName(response_lower, wine_name, name_parts, ws) ==
    ContextMatch(
        PartsMatch(ExactMatch(response_lower, Lower(wine_name)), response_lower,
                   name_parts, MatchingParts(response_lower, name_parts)),
        response_lower, ws, {i \in DOMAIN ws : Len(ws[i]) > 4})

\* position and match_score of one wine (lines 898-957); position -1: no match
MatchOfStripped(response_lower, wine_name) ==
    MatchOfName(response_lower, wine_name, NameParts(wine_name), Split(wine_name))

MatchOf(ai_response, wine) == MatchOfStripped(Lower(ai_response), Strip(wine.name))

\* the test of line 961 with the threshold of the context matches
Accepted_FromContextScore(m) == m.position >= 0 /\ m.num >= ContextScore * m.den

\* "Only include wines with match score > 80" (line 961)
Accepted(m) == m.position >= 0 /\ m.num > AcceptAbove * m.den

\* the matches kept: named wines whose match is accepted, in catalog order
AcceptedMatches(available_wines, matches) ==
    LET named == {i \in DOMAIN available_wines :
                     /\ Strip(available_wines[i].name) # << >>
                     /\ Accepted(matches[i])}
        kept  == SelectIdx([i \in DOMAIN available_wines |-> i], named)
    IN  [k \in DOMAIN kept |->
            [wine     |-> available_wines[kept[k]],
             position |-> matches[kept[k]].position,
             num      |-> matches[kept[k]].num,
             den      |-> matches[kept[k]].den]]

\* wine_matches: the accepted matches in catalog order (lines 897-966)
WineMatches(ai_response, available_wines) ==
    AcceptedMatches(available_wines,
        [i \in DOMAIN available_wines |-> MatchOf(ai_response, available_wines[i])])

\* a sort key that orders nothing: the matches stay in catalog order
MatchBefore_CatalogOrder(a, b) == FALSE

\* the sort key (position, -score) of line 969
MatchBefore(a, b) ==
    \/ a.position < b.position
    \/ a.position = b.position /\ a.num * b.den > b.num * a.den

\* list.sort(key=(position, -score)): stable
RECURSIVE SortMatches(_)
SortMatches(ms) ==
    IF ms = << >> THEN << >>
    ELSE LET m    == CHOOSE i \in DOMAIN ms :
                        /\ \A j \in DOMAIN ms : ~MatchBefore(ms[j], ms[i])
                        /\ \A j \in 1..(i - 1) : MatchBefore(ms[j], ms[i]) \/ MatchBefore(ms[i], ms[j])
             rest == SelectIdx(ms, DOMAIN ms \ {m})
         IN  <<ms[m]>> \o SortMatches(rest)

\* _extract_recommended_wines: the matched wines, each id once, no limit (lines 888-998)
ExtractRecommendedWines(ai_response, available_wines) ==
    IF available_wines = << >> THEN << >>
    ELSE LET sorted == SortMatches(WineMatches(ai_response, available_wines))
             wines  == [i \in DOMAIN sorted |-> sorted[i].wine]
         IN  UniqueById(wines)

\* ------------------------------------------------------------------------
\* AIAgentService._create_wine_journeys (services/ai_agent.py)
\* ------------------------------------------------------------------------
\* random.seed(bottles_count * 42)
SeedFactor == 42

\* random.shuffle of a list of L items right after random.seed(n * 42):
\* ShuffleFresh[n + 1][L + 1][i] is the index, in the list before the shuffle,
\* of the item at place i after it (CPython's generator, n = 0..6, L = 0..10)
ShuffleFresh == <<
      <<<<>>, <<1>>, <<1,2>>, <<1,3,2>>, <<3,1,2,4>>, <<3,2,1,5,4>>, <<5,3,2,1,6,4>>, <<5,3,2,1,6,4,7>>, <<5,2,6,3,1,4,8,7>>, <<8,6,2,4,5,3,1,9,7>>, <<8,9,2,6,4,5,3,1,10,7>>>>,
      <<<<>>, <<1>>, <<2,1>>, <<2,1,3>>, <<3,2,4,1>>, <<4,2,3,5,1>>, <<4,2,3,5,1,6>>, <<2,4,5,3,7,1,6>>, <<4,5,7,8,3,6,1,2>>, <<4,7,8,5,9,3,6,1,2>>, <<8,4,3,9,6,7,10,5,1,2>>>>,
      <<<<>>, <<1>>, <<1,2>>, <<1,2,3>>, <<4,2,1,3>>, <<5,4,2,1,3>>, <<5,4,2,1,3,6>>, <<7,2,5,4,1,3,6>>, <<8,2,3,6,4,1,7,5>>, <<7,2,6,3,9,8,4,1,5>>, <<7,6,4,2,3,10,9,8,1,5>>>>,
      <<<<>>, <<1>>, <<2,1>>, <<2,1,3>>, <<4,2,3,1>>, <<4,2,3,1,5>>, <<2,3,6,4,1,5>>, <<2,3,6,4,7,1,5>>, <<6,8,3,2,4,7,5,1>>, <<3,9,5,4,7,6,2,8,1>>, <<3,9,5,4,7,6,2,8,1,10>>>>,
      <<<<>>, <<1>>, <<2,1>>, <<2,1,3>>, <<4,2,3,1>>, <<4,5,2,3,1>>, <<4,5,2,3,1,6>>, <<4,7,2,3,5,1,6>>, <<7,6,1,8,4,3,5,2>>, <<3,7,1,5,8,9,4,6,2>>, <<3,7,1,5,8,10,4,6,9,2>>>>,
      <<<<>>, <<1>>, <<1,2>>, <<3,1,2>>, <<3,2,1,4>>, <<5,2,3,1,4>>, <<2,3,5,6,1,4>>, <<5,6,3,2,7,1,4>>, <<5,8,3,2,4,6,1,7>>, <<5,8,3,2,4,9,6,1,7>>, <<8,4,5,3,9,6,2,10,1,7>>>>,
      <<<<>>, <<1>>, <<2,1>>, <<2,1,3>>, <<4,2,3,1>>, <<4,2,3,1,5>>, <<2,6,4,3,1,5>>, <<2,6,4,3,1,5,7>>, <<7,4,8,2,5,3,6,1>>, <<9,4,7,3,6,2,8,5,1>>, <<9,4,7,3,6,2,8,5,1,10>>>> >>

\* the same after random.seed(n * 42) and one earlier shuffle of a list of P
\* items by whoever shares the generator: ShuffleAfter[n + 1][P + 1][L + 1][i]
\* (n = 0..6, P = 0..5, L = 0..5)
ShuffleAfter == <<
      <<
        <<<<>>, <<1>>, <<1,2>>, <<1,3,2>>, <<3,1,2,4>>, <<3,2,1,5,4>>>>,
        <<<<>>, <<1>>, <<1,2>>, <<1,3,2>>, <<3,1,2,4>>, <<3,2,1,5,4>>>>,
        <<<<>>, <<1>>, <<1,2>>, <<3,1,2>>, <<3,2,1,4>>, <<5,3,2,1,4>>>>,
        <<<<>>, <<1>>, <<2,1>>, <<3,2,1>>, <<4,3,2,1>>, <<5,2,4,3,1>>>>,
        <<<<>>, <<1>>, <<1,2>>, <<1,3,2>>, <<1,2,4,3>>, <<1,5,2,4,3>>>>,
        <<<<>>, <<1>>, <<1,2>>, <<1,2,3>>, <<1,3,2,4>>, <<1,3,2,4,5>>>> >>,
      <<
        <<<<>>, <<1>>, <<2,1>>, <<2,1,3>>, <<3,2,4,1>>, <<4,2,3,5,1>>>>,
        <<<<>>, <<1>>, <<2,1>>, <<2,1,3>>, <<3,2,4,1>>, <<4,2,3,5,1>>>>,
        <<<<>>, <<1>>, <<2,1>>, <<3,2,1>>, <<4,2,3,1>>, <<2,4,5,3,1>>>>,
        <<<<>>, <<1>>, <<2,1>>, <<3,2,1>>, <<4,2,3,1>>, <<2,4,5,3,1>>>>,
        <<<<>>, <<1>>, <<2,1>>, <<2,3,1>>, <<4,3,1,2>>, <<4,3,1,5,2>>>>,
        <<<<>>, <<1>>, <<2,1>>, <<2,3,1>>, <<4,3,1,2>>, <<4,3,1,5,2>>>> >>,
      <<
        <<<<>>, <<1>>, <<1,2>>, <<1,2,3>>, <<4,2,1,3>>, <<5,4,2,1,3>>>>,
        <<<<>>, <<1>>, <<1,2>>, <<1,2,3>>, <<4,2,1,3>>, <<5,4,2,1,3>>>>,
        <<<<>>, <<1>>, <<2,1>>, <<3,2,1>>, <<3,4,2,1>>, <<3,2,5,4,1>>>>,
        <<<<>>, <<1>>, <<2,1>>, <<3,2,1>>, <<3,4,2,1>>, <<3,2,5,4,1>>>>,
        <<<<>>, <<1>>, <<2,1>>, <<3,2,1>>, <<4,2,3,1>>, <<4,2,5,3,1>>>>,
        <<<<>>, <<1>>, <<1,2>>, <<1,2,3>>, <<4,2,1,3>>, <<4,2,1,3,5>>>> >>,
      <<
        <<<<>>, <<1>>, <<2,1>>, <<2,1,3>>, <<4,2,3,1>>, <<4,2,3,1,5>>>>,
        <<<<>>, <<1>>, <<2,1>>, <<2,1,3>>, <<4,2,3,1>>, <<4,2,3,1,5>>>>,
        <<<<>>, <<1>>, <<1,2>>, <<1,2,3>>, <<2,3,1,4>>, <<2,3,1,4,5>>>>,
        <<<<>>, <<1>>, <<1,2>>, <<1,2,3>>, <<2,3,1,4>>, <<2,3,1,4,5>>>>,
        <<<<>>, <<1>>, <<2,1>>, <<2,3,1>>, <<4,1,3,2>>, <<1,3,4,5,2>>>>,
        <<<<>>, <<1>>, <<2,1>>, <<2,3,1>>, <<4,1,3,2>>, <<1,3,4,5,2>>>> >>,
      <<
        <<<<>>, <<1>>, <<2,1>>, <<2,1,3>>, <<4,2,3,1>>, <<4,5,2,3,1>>>>,
        <<<<>>, <<1>>, <<2,1>>, <<2,1,3>>, <<4,2,3,1>>, <<4,5,2,3,1>>>>,
        <<<<>>, <<1>>, <<1,2>>, <<1,2,3>>, <<4,1,2,3>>, <<4,1,2,3,5>>>>,
        <<<<>>, <<1>>, <<1,2>>, <<1,2,3>>, <<4,1,2,3>>, <<4,1,2,3,5>>>>,
        <<<<>>, <<1>>, <<1,2>>, <<3,1,2>>, <<2,3,1,4>>, <<5,3,1,2,4>>>>,
        <<<<>>, <<1>>, <<2,1>>, <<2,3,1>>, <<4,1,3,2>>, <<3,4,1,5,2>>>> >>,
      <<
        <<<<>>, <<1>>, <<1,2>>, <<3,1,2>>, <<3,2,1,4>>, <<5,2,3,1,4>>>>,
        <<<<>>, <<1>>, <<1,2>>, <<3,1,2>>, <<3,2,1,4>>, <<5,2,3,1,4>>>>,
        <<<<>>, <<1>>, <<2,1>>, <<3,2,1>>, <<4,2,3,1>>, <<2,3,5,4,1>>>>,
        <<<<>>, <<1>>, <<1,2>>, <<1,2,3>>, <<2,3,1,4>>, <<5,1,3,2,4>>>>,
        <<<<>>, <<1>>, <<2,1>>, <<2,3,1>>, <<4,1,3,2>>, <<4,5,3,1,2>>>>,
        <<<<>>, <<1>>, <<2,1>>, <<2,3,1>>, <<4,1,3,2>>, <<4,5,3,1,2>>>> >>,
      <<
        <<<<>>, <<1>>, <<2,1>>, <<2,1,3>>, <<4,2,3,1>>, <<4,2,3,1,5>>>>,
        <<<<>>, <<1>>, <<2,1>>, <<2,1,3>>, <<4,2,3,1>>, <<4,2,3,1,5>>>>,
        <<<<>>, <<1>>, <<1,2>>, <<1,2,3>>, <<2,1,4,3>>, <<5,4,1,2,3>>>>,
        <<<<>>, <<1>>, <<1,2>>, <<1,2,3>>, <<2,1,4,3>>, <<5,4,1,2,3>>>>,
        <<<<>>, <<1>>, <<2,1>>, <<2,1,3>>, <<3,4,1,2>>, <<3,4,1,2,5>>>>,
        <<<<>>, <<1>>, <<2,1>>, <<2,1,3>>, <<3,4,1,2>>, <<3,4,1,2,5>>>> >> >>

\* the module-level generator of random: the last seed and the lengths of the
\* lists shuffled since
SeededRng(bottles_count) == [seed |-> bottles_count * SeedFactor, drawn |-> << >>]

\* random.shuffle(wines_copy) on the generator in state rng
ShuffleWith(rng, wines) ==
    LET n    == rng.seed \div SeedFactor
        perm == IF rng.drawn = << >>
                THEN ShuffleFresh[n + 1][Len(wines) + 1]
                ELSE ShuffleAfter[n + 1][rng.drawn[1] + 1][Len(wines) + 1]
    IN  [i \in DOMAIN wines |-> wines[perm[i]]]

\* the generator after that shuffle
RngAfterShuffle(rng, wines) == [rng EXCEPT !.drawn = Append(@, Len(wines))]

\* the wines get_next_unused_wine hands out, call after call (lines 1155-1161)
UnusedInOrder(wines_copy) == UniqueById(wines_copy)

\* the journeys built when a second journey is never started
JourneysFrom_FirstOnly(wines, wines_copy, bottles_count) ==
    LET picks == UnusedInOrder(wines_copy)
    IN  IF bottles_count >= 2 /\ Len(picks) >= bottles_count
        THEN <<[id |-> 1, reason |-> "", wines |-> Slice(picks, 0, bottles_count)]>>
        ELSE <<[id |-> 1, reason |-> "", wines |-> Slice(wines, 0, bottles_count)]>>

\* the journeys built from the shuffled copy (lines 1151-1258); the
\* description of a journey is left out, reason is the '' of journey.get
JourneysFrom(wines, wines_copy, bottles_count) ==
    LET picks == UnusedInOrder(wines_copy)
        Take(a, b) == Slice(picks, a, b)
        J(id, ws) == [id |-> id, reason |-> "", wines |-> ws]
        built ==
          IF bottles_count = 2
          THEN (IF Len(picks) >= 2 THEN <<J(1, Take(0, 2))>> ELSE << >>)
               \o (IF Len(picks) >= 4 /\ Len(wines) >= 4 THEN <<J(2, Take(2, 4))>> ELSE << >>)
          ELSE IF bottles_count = 3
          THEN IF Len(picks) >= 3
               THEN <<J(1, Take(0, 3))>>
                    \o (IF Len(wines) >= 6 /\ Len(picks) >= 6
                        THEN <<J(2, Take(3, 6))>> ELSE << >>)
               ELSE << >>
          ELSE IF bottles_count >= 4
          THEN IF Len(Take(0, bottles_count)) >= 2
               THEN <<J(1, Take(0, bottles_count))>>
                    \o (IF /\ Len(wines) >= bottles_count * 2
                           /\ Len(Take(bottles_count, 2 * bottles_count)) >= 2
                        THEN <<J(2, Take(bottles_count, 2 * bottles_count))>> ELSE << >>)
               ELSE << >>
          ELSE << >>
    IN  IF built = << >> /\ wines # << >>
        THEN <<J(1, IF Len(wines) >= bottles_count
                    THEN Slice(wines, 0, bottles_count) ELSE wines)>>
        ELSE built

\* _create_wine_journeys with a shuffled copy that lost its first wine
CreateWineJourneys_ShortCopy(wines, bottles_count) ==
    IF wines = << >> THEN << >>
    ELSE JourneysFrom(wines, Tail(ShuffleWith(SeededRng(bottles_count), wines)),
                      bottles_count)

\* _create_wine_journeys when no other request touches the generator
\* between its random.seed and its random.shuffle
CreateWineJourneys(wines, bottles_count) ==
    IF wines = << >> THEN << >>
    ELSE JourneysFrom(wines, ShuffleWith(SeededRng(bottles_count), wines), bottles_count)

\* calculate_bottles_needed(guest_count) with courses_per_person = 2.0
\* (prompts/b2c_system.py): guest_count * 2 / 6, rounded up only when the
\* fractional part exceeds one half
CalculateBottlesNeeded(guest_count) ==
    LET total_glasses == guest_count * 2
        whole == total_glasses \div 6
        rem   == total_glasses % 6
    IN  IF 2 * rem > 6 THEN whole + 1 ELSE whole

\* ------------------------------------------------------------------------
\* State
\* ------------------------------------------------------------------------
VARIABLES
    available,             \* ids of the venue's products with is_available
    preferences,           \* context['preferences']
    num_bottiglie_target,  \* Session.num_bottiglie_target, 0 when None
    guest_count,           \* context['guest_count']
    featured_wines,        \* venue.get_featured_wines()
    message_count,         \* Session.message_count when the turn is processed
    pc,                    \* where the request is
    all_wines,             \* the filtered catalog
    llm_calls,             \* the language-model calls made for the request
    result_json,           \* the parsed reply of the selection model
    wine_selection,        \* the validated selection
    ai_response,           \* the text mined by the legacy path
    wines_to_return,       \* the wines the extractor found
    journeys,              \* the journeys the constructor built
    response,              \* what the request returns
    rng,                   \* the module-level generator of random
    conv,                  \* the requests that build journeys at the same time
    session_status,        \* Session.status
    messages,              \* the rows of the session in the table messages
    proposals,             \* the rows of the session in the table wine_proposals
    clock,                 \* datetime.utcnow(), in requests served
    http                   \* the status and the body the route returns

vars == <<available, preferences, num_bottiglie_target, guest_count, featured_wines,
          message_count, pc, all_wines, llm_calls, result_json, wine_selection,
          ai_response, wines_to_return, journeys, response, rng, conv,
          session_status, messages, proposals, clock, http>>

\* all the sequences of at most n elements of S
SeqsUpTo(S, n) == UNION {[1..k -> S] : k \in 0..n}

\* ------------------------------------------------------------------------
\* Catalog filter (process_b2c_message, lines 236-291)
\* A budget is [label, amount]: label "num" for a number, else the category.
\* ------------------------------------------------------------------------
NoBudget == [label |-> "None", amount |-> 0]
NumBudget(b) == [label |-> "num", amount |-> b]
LabelBudget(l) == [label |-> l, amount |-> 0]

BaseCeiling == 20
MediumCeiling == 40

\* budget_max in euros, 0 when it stays None or is not true in "if budget_max:"
BudgetMax(budget_pref) ==
    IF budget_pref.label = "num" THEN budget_pref.amount
    ELSE IF budget_pref.label \in {"base", "low"} THEN BaseCeiling
    ELSE IF budget_pref.label \in {"spinto", "medium"} THEN MediumCeiling
    ELSE 0

\* max_price = budget_max * 1.15 in the arithmetic of Python's float (IEEE 754
\* double), for budget_max = 1..50: the highest price in cents that is <= it.
\* The product falls short of the exact value for 3, 6, 7, 11, 12, ...
\* (12 * 1.15 = 13.799999999999999).
FloatMaxPrice == <<
     115,  230,  344,  460,  575,  689,  804,  920, 1035, 1150,
    1264, 1379, 1495, 1609, 1725, 1840, 1954, 2070, 2184, 2300,
    2415, 2529, 2645, 2759, 2874, 2990, 3104, 3219, 3334, 3450,
    3565, 3680, 3794, 3909, 4025, 4140, 4255, 4369, 4484, 4600,
    4715, 4830, 4944, 5059, 5174, 5290, 5405, 5519, 5634, 5749 >>

\* Product.price <= max_price, prices in cents
WithinMaxPrice(price, budget_max) == price <= FloatMaxPrice[budget_max]

\* the rows of the query: this venue's available products of the type and
\* under the price asked for
FilteredIds(avail, wine_type_pref, budget_pref) ==
    {id \in avail :
        /\ (wine_type_pref \notin {"None", "any"} => ProductTypes[id] = wine_type_pref)
        /\ (BudgetMax(budget_pref) # 0
              => WithinMaxPrice(ProductPrices[id], BudgetMax(budget_pref)))}

FilteredWines(avail, wine_type_pref, budget_pref) ==
    OrderedRows(FilteredIds(avail, wine_type_pref, budget_pref))

\* gathered_info['bottles_count'] (lines 99-110)
GatheredBottles(prefs, target) ==
    IF prefs.journey_preference = "journey" /\ prefs.bottles_count = 0 /\ target # 0
    THEN target ELSE prefs.bottles_count

\* ------------------------------------------------------------------------
\* What the language model may return
\* ------------------------------------------------------------------------
WineEntry(id, name, rank, best) ==
    [isdict |-> TRUE, id |-> id, name |-> name, rank |-> rank, best |-> best,
     reason |-> "why"]

\* an entry of "wines" that is no JSON object
NotADict == [isdict |-> FALSE, id |-> NoId, name |-> << >>, rank |-> NoRank,
             best |-> "False", reason |-> ""]

\* an id no product of the venue has
UnknownId == NumProducts + 1

\* an entry that names product 1 in upper case and carries no id
ByNameEntries(ranks, bests) ==
    {WineEntry(NoId, [i \in DOMAIN ProductNames[1] |->
                        IF \E k \in 1..26 : LowerLetters[k] = ProductNames[1][i]
                        THEN Upper[CHOOSE k \in 1..26 : LowerLetters[k] = ProductNames[1][i]]
                        ELSE ProductNames[1][i]], r, b) : r \in ranks, b \in bests}

ById(ids, ranks, bests) ==
    {WineEntry(id, << >>, r, b) : id \in ids, r \in ranks, b \in bests}

SingleJson(wines) ==
    [wines_is_list |-> TRUE, wines |-> wines, journeys_is_list |-> TRUE, journeys |-> << >>]

JourneyJson(js) ==
    [wines_is_list |-> TRUE, wines |-> << >>, journeys_is_list |-> TRUE, journeys |-> js]

\* {"wines": "...", "journeys": "..."}: neither field is a list
NoListJson ==
    [wines_is_list |-> FALSE, wines |-> << >>, journeys_is_list |-> FALSE, journeys |-> << >>]

JourneyEntry(ids) ==
    [isdict |-> TRUE, wines_is_list |-> TRUE, reason |-> "why",
     wines |-> [i \in DOMAIN ids |-> WineEntry(ids[i], << >>, NoRank, "False")]]

\* the journeys a reply is made of: two different wines, the same wine twice,
\* one wine, one known and one unknown wine, three wines
JourneyShapes ==
    {JourneyEntry(<<1, 2>>), JourneyEntry(<<1, 1>>), JourneyEntry(<<2>>),
     JourneyEntry(<<2, UnknownId>>), JourneyEntry(<<2, 1, 2>>)}

\* ------------------------------------------------------------------------
\* Values of the variables a specification does not use
\* ------------------------------------------------------------------------
NoSelection == [wines |-> << >>, journeys |-> << >>]

NoResponse ==
    [error |-> "none", message |-> "", mode |-> "", wines |-> << >>,
     has_all_rankings |-> FALSE, all_rankings |-> << >>, journeys |-> << >>,
     wine_ids |-> {}, is_recommending |-> FALSE, is_opening |-> FALSE]

IdleRng == [seed |-> 0, drawn |-> << >>]

\* no reply sent yet; context tells whether the request carries a context
NoReply == [context |-> FALSE, status |-> 0, body |-> NoResponse]

\* a session just created (routes/chat.py 211-225): active, no message,
\* no proposal
IdleStore ==
    /\ session_status = "active"
    /\ messages = << >>
    /\ proposals = << >>
    /\ clock = 0
    /\ http = NoReply

\* ------------------------------------------------------------------------
\* Specification SpecSelect: _validate_and_enrich_result applied to every
\* reply of the selection model, for the catalogs {1..k} in query order
\* ------------------------------------------------------------------------
SelectRanks == {NoRank, 1, 2}

SelectEntries ==
    ById(ProductIds \cup {UnknownId}, SelectRanks, {"True", "False"})
        \cup ByNameEntries({NoRank}, {"False"}) \cup {NotADict}

SelectCatalogs == {OrderedRows(1..k) : k \in 0..NumProducts}

InitSelect ==
    /\ available = {}
    /\ num_bottiglie_target = 0
    /\ guest_count = 2
    /\ message_count = 0
    /\ pc = "validate"
    /\ all_wines \in SelectCatalogs
    /\ llm_calls = << >>
    /\ \/ /\ preferences = [wine_type |-> "any", journey_preference |-> "single",
                            budget |-> NoBudget, bottles_count |-> 0]
          /\ featured_wines \in {<< >>, <<2>>}
          /\ result_json \in {SingleJson(ws) : ws \in SeqsUpTo(SelectEntries, MaxModelWines)}
       \/ /\ \E n \in 0..MaxBottles :
                preferences = [wine_type |-> "any", journey_preference |-> "journey",
                               budget |-> NoBudget, bottles_count |-> n]
          /\ featured_wines = << >>
          /\ result_json \in {JourneyJson(js) : js \in SeqsUpTo(JourneyShapes, MaxModelJourneys)}
    /\ wine_selection = NoSelection
    /\ ai_response = << >>
    /\ wines_to_return = << >>
    /\ journeys = << >>
    /\ response = NoResponse
    /\ rng = IdleRng
    /\ conv = << >>
    /\ IdleStore

\* validated_result = self._validate_and_enrich_result(...) (lines 128-134)
ValidateSelection ==
    /\ pc = "validate"
    /\ wine_selection' = ValidateAndEnrich(result_json, all_wines,
                            preferences.journey_preference, preferences.bottles_count,
                            featured_wines)
    /\ pc' = "validated"
    /\ UNCHANGED <<available, preferences, num_bottiglie_target, guest_count,
                   featured_wines, message_count, all_wines, llm_calls, result_json,
                   ai_response, wines_to_return, journeys, response, rng, conv,
                   session_status, messages, proposals, clock, http>>

NextSelect == ValidateSelection

SpecSelect == InitSelect /\ [][NextSelect]_vars

\* ------------------------------------------------------------------------
\* AIAgentService.process_b2c_message (services/ai_agent.py): one turn
\* A response is the returned dict; error is "none" for a returned dict,
\* else the class of the exception that leaves process_b2c_message.
\* message is the kind of text returned, wine_ids the set of the ids listed.
\* ------------------------------------------------------------------------
IdsOf(ws) == {ws[i].id : i \in DOMAIN ws} \ {NoId}

JourneyIds(js) == UNION {IdsOf(js[j].wines) : j \in DOMAIN js}

\* OpeningResponse that names a wine of the catalog
OpeningResponse_NamesWine(kind) ==
    [NoResponse EXCEPT !.message = kind, !.mode = "single", !.is_opening = TRUE,
                       !.wines = <<Product(1)>>, !.wine_ids = {1},
                       !.is_recommending = TRUE]

\* lines 184-203 and 214-229
OpeningResponse(kind) ==
    [NoResponse EXCEPT !.message = kind, !.mode = "single", !.is_opening = TRUE]

\* lines 300-313
NoWinesResponse ==
    [NoResponse EXCEPT !.message = "no_wines", !.mode = "single"]

\* lines 424-437 and 593-606
JourneyResponse(kind, js) ==
    [NoResponse EXCEPT !.message = kind, !.mode = "journey", !.journeys = js,
                       !.wine_ids = JourneyIds(js), !.is_recommending = TRUE]

\* lines 440-461
SingleResponse(kind, all_ranked_wines) ==
    [NoResponse EXCEPT !.message = kind, !.mode = "single",
                       !.wines = Slice(all_ranked_wines, 0, 3),
                       !.has_all_rankings = TRUE,
                       !.all_rankings = all_ranked_wines,
                       !.wine_ids = IdsOf(all_ranked_wines),
                       !.is_recommending = TRUE]

\* lines 608-623
LegacySingleResponse(ws) ==
    [NoResponse EXCEPT !.message = "legacy", !.mode = "single", !.wines = ws,
                       !.wine_ids = IdsOf(ws), !.is_recommending = Len(ws) > 0]

\* an exception leaves process_b2c_message
ErrorResponse(class) == [NoResponse EXCEPT !.error = class]

\* one call of a language model and how it ended
Call(model, outcome) == [model |-> model, outcome |-> outcome]

\* ------------------------------------------------------------------------
\* Specification SpecTurn: the requests a turn can be, and what the three
\* language models may answer
\* ------------------------------------------------------------------------
Prefs(wine_type, journey_preference, budget, bottles_count) ==
    [wine_type |-> wine_type, journey_preference |-> journey_preference,
     budget |-> budget, bottles_count |-> bottles_count]

TurnFilters == {<<"any", NoBudget>>, <<"red", NumBudget(20)>>}

TurnGuests == {1, 2, 5}

EmptyJson == SingleJson(<< >>)

InitTurn ==
    /\ available \in SUBSET ProductIds
    /\ message_count \in {1, 2}
    /\ \E f \in TurnFilters :
          \/ /\ preferences = Prefs(f[1], "single", f[2], 0)
             /\ num_bottiglie_target = 0
             /\ guest_count = 2
             /\ featured_wines \in {<< >>, <<2>>}
          \/ /\ preferences = Prefs(f[1], "journey", f[2], 2)
             /\ num_bottiglie_target = 0
             /\ guest_count = 2
             /\ featured_wines = << >>
          \/ /\ preferences = Prefs(f[1], "journey", f[2], 0)
             /\ num_bottiglie_target \in {0, 2}
             /\ guest_count \in TurnGuests
             /\ featured_wines = << >>
    /\ pc = "start"
    /\ all_wines = << >>
    /\ llm_calls = << >>
    /\ result_json = EmptyJson
    /\ wine_selection = NoSelection
    /\ ai_response = << >>
    /\ wines_to_return = << >>
    /\ journeys = << >>
    /\ response = NoResponse
    /\ rng = IdleRng
    /\ conv = << >>
    /\ IdleStore

\* the opening branch (lines 124-229): whatever the model does, no wine is returned
OpeningTurn ==
    /\ pc = "start"
    /\ message_count <= 1
    /\ \E outcome \in {"text", "empty", "error"} :
          /\ llm_calls' = Append(llm_calls, Call("opening", outcome))
          /\ response' = OpeningResponse(IF outcome = "text" THEN "opening"
                                         ELSE "opening_fallback")
    /\ pc' = "done"
    /\ UNCHANGED <<available, preferences, num_bottiglie_target, guest_count,
                   featured_wines, message_count, all_wines, result_json,
                   wine_selection, ai_response, wines_to_return, journeys, rng, conv,
                   session_status, messages, proposals, clock, http>>

\* CatalogFilter without its short-circuit on an empty result
CatalogFilter_NoShortCircuit ==
    /\ pc = "start"
    /\ message_count > 1
    /\ all_wines' = FilteredWines(available, preferences.wine_type, preferences.budget)
    /\ pc' = "select"
    /\ UNCHANGED <<available, preferences, num_bottiglie_target, guest_count,
                   featured_wines, message_count, llm_calls, result_json,
                   wine_selection, ai_response, wines_to_return, journeys,
                   response, rng, conv,
                   session_status, messages, proposals, clock, http>>

\* the query of the catalog and the short-circuit on an empty result (lines 236-313)
CatalogFilter ==
    /\ pc = "start"
    /\ message_count > 1
    /\ all_wines' = FilteredWines(available, preferences.wine_type, preferences.budget)
    /\ IF all_wines' = << >>
       THEN response' = NoWinesResponse /\ pc' = "done"
       ELSE response' = response /\ pc' = "select"
    /\ UNCHANGED <<available, preferences, num_bottiglie_target, guest_count,
                   featured_wines, message_count, llm_calls, result_json,
                   wine_selection, ai_response, wines_to_return, journeys, rng, conv,
                   session_status, messages, proposals, clock, http>>

\* the entries a reply of the selection model is made of in a turn
TurnEntries ==
    ById({1, UnknownId}, {NoRank, 2, BadRank}, {"False"})
        \cup ById({2}, {NoRank}, {"True"}) \cup {NotADict}

TurnShapes == {JourneyEntry(<<1, 2>>), JourneyEntry(<<2, 1>>), JourneyEntry(<<2>>)}

\* the JSON objects the selection model may return
SelectionReplies(journey_preference) ==
    {NoListJson} \cup
    (IF journey_preference = "journey"
     THEN {JourneyJson(js) : js \in SeqsUpTo(TurnShapes, MaxModelJourneys)}
     ELSE {SingleJson(ws) : ws \in SeqsUpTo(TurnEntries, MaxModelWines)})

\* the texts the legacy model may return: no text, a text that names no
\* wine, one that names a wine, one that names a wine by its full name in
\* other case (and so Barolo too), one that names two wines
LegacyTexts ==
    { << >>,
      <<"v","i","n","o">>,
      <<"B","a","r","o","l","o">>,
      <<"b","a","r","o","l","o"," ","R","I","S","E","R","V","A">>,
      <<"S","O","A","V","E"," ","B","a","r","o","l","o">> }

\* SelectWines with the error of the selection call raised to the caller
SelectWines_RaisesToCaller ==
    /\ pc = "select"
    /\ \/ /\ llm_calls' = Append(llm_calls, Call("selection", "error"))
          /\ pc' = "done"
          /\ response' = ErrorResponse("ValueError")
          /\ UNCHANGED <<result_json, wine_selection>>
       \/ response' = response /\ \E outcome \in {"none", "no_json", "bad_json"} :
             /\ llm_calls' = Append(llm_calls, Call("selection", outcome))
             /\ wine_selection' = NoSelection
             /\ pc' = "legacy_try"
             /\ UNCHANGED result_json
       \/ response' = response /\ \E reply \in SelectionReplies(preferences.journey_preference) :
             /\ llm_calls' = Append(llm_calls, Call("selection", "json"))
             /\ IF ValidateRaises(reply, all_wines, preferences.journey_preference)
                THEN /\ pc' = "legacy_handler"
                     /\ UNCHANGED <<result_json, wine_selection>>
                ELSE LET validated ==
                           ValidateAndEnrich(reply, all_wines,
                               preferences.journey_preference,
                               GatheredBottles(preferences, num_bottiglie_target),
                               featured_wines)
                     IN  /\ wine_selection' = validated
                         /\ IF validated.wines = << >> /\ validated.journeys = << >>
                            THEN pc' = "legacy_try" /\ UNCHANGED result_json
                            ELSE pc' = "communicate" /\ result_json' = reply
    /\ UNCHANGED <<available, preferences, num_bottiglie_target, guest_count,
                   featured_wines, message_count, all_wines, ai_response,
                   wines_to_return, journeys, rng, conv,
                   session_status, messages, proposals, clock, http>>

\* FineTunedWineSelector.select_wines and the test of its result (lines 340-381).
\* outcome "error": the call raises, select_wines raises ValueError;
\* "none", "no_json", "bad_json": content None, text without a JSON object,
\* JSON that does not parse: select_wines returns the empty selection.
\* The parsed reply is a local of select_wines; it is kept for a selection
\* that goes on to the communication model.
SelectWines ==
    /\ pc = "select"
    /\ \/ /\ llm_calls' = Append(llm_calls, Call("selection", "error"))
          /\ pc' = "legacy_handler"
          /\ UNCHANGED <<result_json, wine_selection>>
       \/ \E outcome \in {"none", "no_json", "bad_json"} :
             /\ llm_calls' = Append(llm_calls, Call("selection", outcome))
             /\ wine_selection' = NoSelection
             /\ pc' = "legacy_try"
             /\ UNCHANGED result_json
       \/ \E reply \in SelectionReplies(preferences.journey_preference) :
             /\ llm_calls' = Append(llm_calls, Call("selection", "json"))
             /\ IF ValidateRaises(reply, all_wines, preferences.journey_preference)
                THEN /\ pc' = "legacy_handler"
                     /\ UNCHANGED <<result_json, wine_selection>>
                ELSE LET validated ==
                           ValidateAndEnrich(reply, all_wines,
                               preferences.journey_preference,
                               GatheredBottles(preferences, num_bottiglie_target),
                               featured_wines)
                     IN  /\ wine_selection' = validated
                         /\ IF validated.wines = << >> /\ validated.journeys = << >>
                            THEN pc' = "legacy_try" /\ UNCHANGED result_json
                            ELSE pc' = "communicate" /\ result_json' = reply
    /\ UNCHANGED <<available, preferences, num_bottiglie_target, guest_count,
                   featured_wines, message_count, all_wines, ai_response,
                   wines_to_return, journeys, response, rng, conv,
                   session_status, messages, proposals, clock, http>>

\* CommunicationModelService.generate_message, the template used when it
\* returns nothing or raises, and the response (lines 383-461)
GenerateMessage ==
    /\ pc = "communicate"
    /\ \E outcome \in {"text", "empty", "error"} :
          /\ llm_calls' = Append(llm_calls, Call("communication", outcome))
          /\ LET kind == IF outcome = "text" THEN "communication" ELSE "template"
             IN  response' =
                    IF /\ preferences.journey_preference = "journey"
                       /\ wine_selection.journeys # << >>
                    THEN JourneyResponse(kind, wine_selection.journeys)
                    ELSE SingleResponse(kind, wine_selection.wines)
    /\ pc' = "done"
    /\ UNCHANGED <<available, preferences, num_bottiglie_target, guest_count,
                   featured_wines, message_count, all_wines, result_json,
                   wine_selection, ai_response, wines_to_return, journeys, rng, conv,
                   session_status, messages, proposals, clock, http>>

\* bottles_count or calculate_bottles_needed(guest_count) (lines 573-586)
LegacyBottles ==
    IF preferences.bottles_count # 0 THEN preferences.bottles_count
    ELSE CalculateBottlesNeeded(guest_count)

\* _fallback_to_legacy_method (lines 517-623) as called at line 379 inside
\* the try ("legacy_try"), at line 466 in the handler of ValueError
\* ("legacy_handler") and at line 474 after the call inside the try raised
\* ("legacy_retry"). outcome "error": the call raises; "none": content None,
\* on which _extract_recommended_wines raises.
FallbackToLegacy ==
    /\ pc \in {"legacy_try", "legacy_handler", "legacy_retry"}
    /\ \/ \E outcome \in {"error", "none"} :
             /\ llm_calls' = Append(llm_calls, Call("legacy", outcome))
             /\ IF pc = "legacy_try"
                THEN pc' = "legacy_retry" /\ response' = response
                ELSE /\ pc' = "done"
                     /\ response' = ErrorResponse(IF pc = "legacy_retry"
                                                  THEN "ValueError" ELSE "Exception")
             /\ UNCHANGED <<ai_response, wines_to_return, journeys, rng>>
       \/ \E text \in LegacyTexts :
             /\ llm_calls' = Append(llm_calls, Call("legacy", "text"))
             /\ ai_response' = text
             /\ LET found == ExtractRecommendedWines(text, all_wines)
                    n     == LegacyBottles
                    build == preferences.journey_preference # "single" /\ found # << >>
                    built == IF build THEN CreateWineJourneys(found, n) ELSE << >>
                IN  /\ wines_to_return' = found
                    /\ journeys' = built
                    /\ rng' = IF build THEN RngAfterShuffle(SeededRng(n), found) ELSE rng
                    /\ response' = IF built # << >>
                                   THEN JourneyResponse("legacy", built)
                                   ELSE LegacySingleResponse(found)
             /\ pc' = "done"
    /\ UNCHANGED <<available, preferences, num_bottiglie_target, guest_count,
                   featured_wines, message_count, all_wines, result_json,
                   wine_selection, conv,
                   session_status, messages, proposals, clock, http>>

NextTurn ==
    \/ OpeningTurn
    \/ CatalogFilter
    \/ SelectWines
    \/ GenerateMessage
    \/ FallbackToLegacy

SpecTurn == InitTurn /\ [][NextTurn]_vars

\* ------------------------------------------------------------------------
\* The Output Validator's single-mode result
\* ------------------------------------------------------------------------
BestItems(ws) == {i \in DOMAIN ws : Truthy(ws[i].best)}

SingleValidated ==
    /\ pc = "validated"
    /\ preferences.journey_preference = "single"
    /\ all_wines # << >>

\* C1: for every non-empty filtered catalog and every output of the selection
\* model, the single-mode result of _validate_and_enrich_result holds exactly
\* one item with best = true, and that item has rank 1.
C1_ExactlyOneBestAtRankOne ==
    SingleValidated =>
        LET ws == wine_selection.wines
        IN  /\ Cardinality(BestItems(ws)) = 1
            /\ \A i \in BestItems(ws) : ws[i].rank = 1

\* C1, the failing case reached: the model ranks wine 1 first and wine 2
\* second and flags both as best; both flags survive validation.
C1_TwoBestSurvive ==
    /\ SingleValidated
    /\ result_json = SingleJson(<<WineEntry(1, << >>, 1, "True"),
                                  WineEntry(2, << >>, 2, "True")>>)
    /\ Cardinality(BestItems(wine_selection.wines)) = 2

\* ------------------------------------------------------------------------
\* The responses of a RECOMMENDING turn
\* ------------------------------------------------------------------------
Returned == pc = "done" /\ response.error = "none"

Recommending == message_count > 1

RanksOf(ws) == {ws[i].rank : i \in DOMAIN ws}

\* C2: in every single-mode recommending response all_rankings is a
\* permutation of the filtered catalog: every filtered item exactly once,
\* ranks exactly 1..N, no rank and no id twice.
C2_AllRankingsPermutation ==
    (/\ Returned /\ Recommending /\ response.mode = "single"
     /\ response.is_recommending /\ response.has_all_rankings) =>
        /\ Len(response.all_rankings) = Len(all_wines)
        /\ IdsOf(response.all_rankings) = IdsOf(all_wines)
        /\ RanksOf(response.all_rankings) = 1..Len(all_wines)

\* C2, the failing case reached: the catalog holds two wines or more, the
\* selection model ranks one of them, and all_rankings holds that one only.
C2_OmittedWineStaysOut ==
    /\ Returned /\ response.mode = "single" /\ response.has_all_rankings
    /\ Len(all_wines) >= 2
    /\ Len(result_json.wines) = 1
    /\ Len(response.all_rankings) = 1

\* the bottle count the request asks for, 0 when none is known
RequestedBottles == GatheredBottles(preferences, num_bottiglie_target)

\* the size a journey is to have: the count asked for, else the one
\* derived from the number of guests
JourneyTarget ==
    IF RequestedBottles # 0 THEN RequestedBottles
    ELSE CalculateBottlesNeeded(guest_count)

\* C3: every response with mode = journey, of the two-stage path or of the
\* legacy path, has no wines and 2 or 3 journeys, each of exactly the target
\* bottle count; a selection output that does not give 2-3 journeys of that
\* size (no target known, more than 3 journeys) is rejected as empty.
C3_JourneyResponseShape ==
    (Returned /\ response.mode = "journey") =>
        /\ response.wines = << >>
        /\ Len(response.journeys) \in {2, 3}
        /\ \A j \in DOMAIN response.journeys :
              Len(response.journeys[j].wines) = JourneyTarget
        /\ response.message # "legacy" =>
              /\ RequestedBottles # 0
              /\ Len(AcceptJourneys(result_json.journeys, all_wines,
                                    RequestedBottles, << >>)) <= 3

\* C3, a failing case reached: the legacy path answers in journey mode with
\* a single journey.
C3_LegacySingleJourney ==
    /\ Returned /\ response.mode = "journey" /\ response.message = "legacy"
    /\ Len(response.journeys) = 1

\* no language-model call of the turn failed
CallsSucceed ==
    \A i \in DOMAIN llm_calls :
        /\ llm_calls[i].outcome # "error"
        /\ ~(llm_calls[i].model = "legacy" /\ llm_calls[i].outcome = "none")

\* C4: a RECOMMENDING turn in single mode over a non-empty filtered catalog
\* shows at least one wine, whatever the selection model and the legacy
\* model return, as long as no language-model call fails.
C4_NeverShownNothing ==
    (/\ pc = "done" /\ Recommending
     /\ preferences.journey_preference = "single"
     /\ all_wines # << >>
     /\ CallsSucceed) =>
        /\ response.error = "none"
        /\ response.wines # << >>

\* C4, the failing case reached: the selection model returns text that is no
\* JSON, the legacy text names no wine of the catalog, no wine is shown.
C4_NothingShown ==
    /\ Returned /\ Recommending
    /\ preferences.journey_preference = "single"
    /\ all_wines # << >>
    /\ llm_calls = <<Call("selection", "no_json"), Call("legacy", "text")>>
    /\ ai_response = <<"v","i","n","o">>
    /\ response.wines = << >>

\* C6: a RECOMMENDING turn whose filtered catalog is empty makes no
\* language-model call and returns the 'no wines available' message with no
\* wines, no journeys and is_recommending false.
C6_EmptyCatalogShortCircuit ==
    (Recommending /\ pc # "start" /\ all_wines = << >>) =>
        /\ pc = "done"
        /\ llm_calls = << >>
        /\ response.error = "none"
        /\ response.message = "no_wines"
        /\ response.wines = << >>
        /\ response.journeys = << >>
        /\ response.wine_ids = {}
        /\ ~response.is_recommending

\* C6, the case reached: the venue has available wines, the filter leaves none
C6_FilterLeavesNone ==
    /\ Recommending /\ pc = "done"
    /\ available # {}
    /\ all_wines = << >>
    /\ response.message = "no_wines"

\* ------------------------------------------------------------------------
\* Specification SpecFilter: the catalog filter over every set of available
\* products, every colour and every budget
\* ------------------------------------------------------------------------
FilterTypes == {"None", "any", "red", "white", "rose"}

FilterBudgets ==
    {NoBudget} \cup {NumBudget(b) : b \in {0, 12, 20, 26}}
        \cup {LabelBudget(l) : l \in {"nolimit", "base", "low", "spinto", "medium", "high"}}

InitFilter ==
    /\ available \in SUBSET ProductIds
    /\ \E t \in FilterTypes, b \in FilterBudgets : preferences = Prefs(t, "single", b, 0)
    /\ num_bottiglie_target = 0
    /\ guest_count = 2
    /\ featured_wines = << >>
    /\ message_count = 2
    /\ pc = "start"
    /\ all_wines = << >>
    /\ llm_calls = << >>
    /\ result_json = EmptyJson
    /\ wine_selection = NoSelection
    /\ ai_response = << >>
    /\ wines_to_return = << >>
    /\ journeys = << >>
    /\ response = NoResponse
    /\ rng = IdleRng
    /\ conv = << >>
    /\ IdleStore

NextFilter == CatalogFilter

SpecFilter == InitFilter /\ [][NextFilter]_vars

\* the budget ceiling in euros the preferences state, 0 when none is known
KnownCeiling(budget_pref) ==
    IF budget_pref.label = "num" THEN budget_pref.amount
    ELSE IF budget_pref.label \in {"base", "low"} THEN 20
    ELSE IF budget_pref.label \in {"spinto", "medium"} THEN 40
    ELSE 0

\* the available items whose colour is asked for (or none is) and whose
\* price is at most B x 1.15 (or no ceiling B is known); prices in cents
ExpectedFiltered ==
    LET B == KnownCeiling(preferences.budget)
    IN  {id \in available :
            /\ \/ preferences.wine_type \in {"any", "None"}
               \/ ProductTypes[id] = preferences.wine_type
            /\ B = 0 \/ ProductPrices[id] <= B * 115}

\* C5: the Catalog Filter returns exactly the available items that satisfy
\* (a) the colour preference is 'any' or absent, or equals the item's type,
\* and (b) no budget ceiling B is known or the price is at most B x 1.15;
\* no lower bound, no colour filter for 'any'.
C5_FilterReturnsExactly ==
    pc # "start" =>
        /\ IdsOf(all_wines) = ExpectedFiltered
        /\ Len(all_wines) = Cardinality(ExpectedFiltered)

\* C5, the failing case reached: with a budget of 12 a red wine priced
\* 13.80 = 12 x 1.15 is available and is not in the filtered catalog.
C5_ItemAtCeilingDropped ==
    /\ pc # "start"
    /\ preferences.budget = NumBudget(12)
    /\ preferences.wine_type = "red"
    /\ 4 \in available
    /\ ProductPrices[4] = 12 * 115
    /\ 4 \notin IdsOf(all_wines)

\* ------------------------------------------------------------------------
\* Specification SpecExtract: _extract_recommended_wines applied to every
\* catalog and every text of at most MaxTokens words
\* ------------------------------------------------------------------------
ExtractWords ==
    { <<"B","a","r","o","l","o">>, <<"B","a","r","o","l","o","n","e">>,
      <<"R","I","S","E","R","V","A">>, <<"s","o","a","v","e">>,
      <<"C","h","i","a","n","t","i">>, <<"v","i","n","o">>, Euro,
      <<"B","a","r","o","l","o"," ","R","i","s","e","r","v","a">>,
      <<"C","h","i","a","n","t","i"," ","C","l","a","s","s","i","c","o">> }

RECURSIVE JoinWords(_)
JoinWords(ws) ==
    IF ws = << >> THEN << >>
    ELSE IF Len(ws) = 1 THEN ws[1]
    ELSE ws[1] \o <<" ">> \o JoinWords(Tail(ws))

ExtractTexts == {JoinWords(ws) : ws \in SeqsUpTo(ExtractWords, MaxTokens)}

InitExtract ==
    /\ available \in SUBSET ProductIds
    /\ preferences = Prefs("any", "single", NoBudget, 0)
    /\ num_bottiglie_target = 0
    /\ guest_count = 2
    /\ featured_wines = << >>
    /\ message_count = 2
    /\ pc = "extract"
    /\ all_wines = OrderedRows(available)
    /\ llm_calls = << >>
    /\ result_json = EmptyJson
    /\ wine_selection = NoSelection
    /\ ai_response \in ExtractTexts
    /\ wines_to_return = << >>
    /\ journeys = << >>
    /\ response = NoResponse
    /\ rng = IdleRng
    /\ conv = << >>
    /\ IdleStore

\* wines_to_return = self._extract_recommended_wines(ai_response, all_wines)
ExtractMentions ==
    /\ pc = "extract"
    /\ wines_to_return' = ExtractRecommendedWines(ai_response, all_wines)
    /\ pc' = "extracted"
    /\ UNCHANGED <<available, preferences, num_bottiglie_target, guest_count,
                   featured_wines, message_count, all_wines, llm_calls, result_json,
                   wine_selection, ai_response, journeys, response, rng, conv,
                   session_status, messages, proposals, clock, http>>

NextExtract == ExtractMentions

SpecExtract == InitExtract /\ [][NextExtract]_vars

\* the full name of the wine occurs in the text, case-insensitively
NamedInText(wine) == Contains(Lower(ai_response), Lower(wine.name))

JourneyWine(k) == [id |-> k, name |-> <<"W">>, type |-> "red", price |-> 1000]

\* the lists 1..L, L..1, 2..L 1 and 1 1 2..L-1 (an id twice)
JourneyLists ==
    UNION {{ [i \in 1..L |-> JourneyWine(i)],
             [i \in 1..L |-> JourneyWine(L + 1 - i)],
             [i \in 1..L |-> JourneyWine(IF i = L THEN 1 ELSE i + 1)],
             [i \in 1..L |-> JourneyWine(IF i = 1 THEN 1 ELSE i - 1)] }
           : L \in 1..MaxJourneyList}

InitJourney ==
    /\ available = {}
    /\ \E n \in 0..MaxBottles : preferences = Prefs("any", "journey", NoBudget, n)
    /\ num_bottiglie_target = 0
    /\ guest_count \in (IF preferences.bottles_count = 0 THEN {1, 2} ELSE {2})
    /\ featured_wines = << >>
    /\ message_count = 2
    /\ pc = "build"
    /\ all_wines = << >>
    /\ llm_calls = << >>
    /\ result_json = EmptyJson
    /\ wine_selection = NoSelection
    /\ ai_response = << >>
    /\ wines_to_return \in JourneyLists
    /\ journeys = << >>
    /\ response = NoResponse
    /\ rng = IdleRng
    /\ conv = << >>
    /\ IdleStore

\* journeys = self._create_wine_journeys(wines_to_return, bottles_count or ...)
BuildJourneys ==
    /\ pc = "build"
    /\ journeys' = CreateWineJourneys(wines_to_return, LegacyBottles)
    /\ rng' = RngAfterShuffle(SeededRng(LegacyBottles), wines_to_return)
    /\ pc' = "built"
    /\ UNCHANGED <<available, preferences, num_bottiglie_target, guest_count,
                   featured_wines, message_count, all_wines, llm_calls, result_json,
                   wine_selection, ai_response, wines_to_return, response, conv,
                   session_status, messages, proposals, clock, http>>

NextJourney == BuildJourneys

SpecJourney == InitJourney /\ [][NextJourney]_vars

DistinctIds(ws) == Cardinality(IdsOf(ws)) = Len(ws)

\* C8: for every bottle count and every list of exactly bottle_count items
\* with distinct ids, the Journey Constructor returns exactly one journey,
\* and it holds all the items of the list.
C8_ExactSizeOneJourney ==
    (pc = "built" /\ DistinctIds(wines_to_return)
                  /\ Len(wines_to_return) = LegacyBottles) =>
        /\ Len(journeys) = 1
        /\ Len(journeys[1].wines) = Len(wines_to_return)
        /\ IdsOf(journeys[1].wines) = IdsOf(wines_to_return)

\* C8, the case reached: four bottles, a list of four wines, one journey of
\* the four wines in another order than the list's
C8_FourOfFour ==
    /\ pc = "built"
    /\ LegacyBottles = 4
    /\ wines_to_return = [i \in 1..4 |-> JourneyWine(i)]
    /\ Len(journeys) = 1
    /\ IdsOf(journeys[1].wines) = 1..4
    /\ journeys[1].wines # wines_to_return

\* two journeys of n wines each with no wine in both
TwoDisjointJourneys(n) ==
    /\ Len(journeys) = 2
    /\ Len(journeys[1].wines) = n
    /\ Len(journeys[2].wines) = n
    /\ Cardinality(IdsOf(journeys[1].wines) \cup IdsOf(journeys[2].wines)) = 2 * n

\* C10 as stated: for every bottle count n >= 1, a list of at least 2n items
\* with distinct ids gives exactly two journeys of n items each with no item
\* in both, and a list of at least n but fewer than 2n gives exactly one
\* journey of n items.
C10_OneOrTwoJourneys ==
    LET n == LegacyBottles
        L == Len(wines_to_return)
    IN  (pc = "built" /\ DistinctIds(wines_to_return) /\ n >= 1) =>
            /\ L >= 2 * n => TwoDisjointJourneys(n)
            /\ (L >= n /\ L < 2 * n) =>
                  (Len(journeys) = 1 /\ Len(journeys[1].wines) = n)

\* C10 amended: the statement holds for every bottle count n >= 2; for n = 1
\* the result is exactly one journey of one item, the first of the list,
\* however long the list is.
C10_OneOrTwoJourneysFromTwo ==
    LET n == LegacyBottles
        L == Len(wines_to_return)
    IN  (pc = "built" /\ DistinctIds(wines_to_return) /\ n >= 1) =>
            /\ (n >= 2 /\ L >= 2 * n) => TwoDisjointJourneys(n)
            /\ (n >= 2 /\ L >= n /\ L < 2 * n) =>
                  (Len(journeys) = 1 /\ Len(journeys[1].wines) = n)
            /\ n = 1 => journeys = <<[id |-> 1, reason |-> "",
                                      wines |-> <<wines_to_return[1]>>]>>

\* C10, the case reached: two bottles and four wines give two journeys of
\* two wines each, over four ids.
C10_TwoByTwo ==
    /\ pc = "built"
    /\ LegacyBottles = 2
    /\ Len(wines_to_return) = 4 /\ DistinctIds(wines_to_return)
    /\ TwoDisjointJourneys(2)
    /\ Cardinality(JourneyIds(journeys)) = 4

\* ------------------------------------------------------------------------
\* Specification SpecShared: two requests served by two threads of the
\* server (run.py: app.run) are inside _create_wine_journeys at the same
\* time. random.seed and random.shuffle act on the one generator of the
\* random module; a thread may be scheduled between the two calls.
\* ------------------------------------------------------------------------
Request(wines, bottles_count) ==
    [pc |-> "seed", wines |-> wines, bottles_count |-> bottles_count,
     wines_copy |-> wines, journeys |-> << >>]

SharedRequests ==
    {Request([k \in 1..L |-> JourneyWine(k)], n) :
        L \in 1..MaxSharedList, n \in 1..MaxBottles}

InitShared ==
    /\ available = {}
    /\ preferences = Prefs("any", "journey", NoBudget, 0)
    /\ num_bottiglie_target = 0
    /\ guest_count = 2
    /\ featured_wines = << >>
    /\ message_count = 2
    /\ pc = "shared"
    /\ all_wines = << >>
    /\ llm_calls = << >>
    /\ result_json = EmptyJson
    /\ wine_selection = NoSelection
    /\ ai_response = << >>
    /\ wines_to_return = << >>
    /\ journeys = << >>
    /\ response = NoResponse
    /\ rng = IdleRng
    /\ conv \in [1..2 -> SharedRequests]
    /\ IdleStore

SharedFrame ==
    UNCHANGED <<available, preferences, num_bottiglie_target, guest_count,
                featured_wines, message_count, pc, all_wines, llm_calls, result_json,
                wine_selection, ai_response, wines_to_return, journeys, response,
                session_status, messages, proposals, clock, http>>

\* random.seed(bottles_count * 42) (line 1148)
SeedGenerator(i) ==
    /\ conv[i].pc = "seed"
    /\ rng' = SeededRng(conv[i].bottles_count)
    /\ conv' = [conv EXCEPT ![i].pc = "shuffle"]
    /\ SharedFrame

\* random.shuffle(wines_copy) (line 1149)
ShuffleCopy(i) ==
    /\ conv[i].pc = "shuffle"
    /\ conv' = [conv EXCEPT ![i].pc = "pick",
                            ![i].wines_copy = ShuffleWith(rng, conv[i].wines)]
    /\ rng' = RngAfterShuffle(rng, conv[i].wines)
    /\ SharedFrame

\* the journeys picked from the request's own copy (lines 1151-1258)
PickJourneys(i) ==
    /\ conv[i].pc = "pick"
    /\ conv' = [conv EXCEPT ![i].pc = "done",
                            ![i].journeys = JourneysFrom(conv[i].wines, conv[i].wines_copy,
                                                         conv[i].bottles_count)]
    /\ UNCHANGED rng
    /\ SharedFrame

NextShared ==
    \E i \in 1..2 : SeedGenerator(i) \/ ShuffleCopy(i) \/ PickJourneys(i)

SpecShared == InitShared /\ [][NextShared]_vars

\* C9: any two calls of _create_wine_journeys with the same list and the
\* same bottle count return identical journeys, also when two conversations
\* are handled at the same time: the result depends on the list and the
\* bottle count only.
C9_SameCallSameJourneys ==
    /\ \A i, j \in DOMAIN conv :
          (/\ conv[i].pc = "done" /\ conv[j].pc = "done"
           /\ conv[i].wines = conv[j].wines
           /\ conv[i].bottles_count = conv[j].bottles_count)
              => conv[i].journeys = conv[j].journeys
    /\ \A i \in DOMAIN conv :
          conv[i].pc = "done"
              => conv[i].journeys = CreateWineJourneys(conv[i].wines, conv[i].bottles_count)

\* C9, the failing case reached: two requests with the same two wines and
\* two bottles end with the two wines in different orders.
C9_SameCallTwoOrders ==
    /\ conv # << >>
    /\ conv[1].pc = "done" /\ conv[2].pc = "done"
    /\ conv[1].wines = conv[2].wines
    /\ Len(conv[1].wines) = 2
    /\ conv[1].bottles_count = 2 /\ conv[2].bottles_count = 2
    /\ conv[1].journeys # conv[2].journeys

\* ------------------------------------------------------------------------
\* The table wine_proposals (models/wine_proposal.py) and the routes that
\* write it (routes/chat.py).  A row keeps the columns the routes set;
\* message_id, proposal_group_id, journey_id and selected_at are 0 when the
\* column is NULL.
\* The rows are kept in insertion order, which is the order of created_at.
\* ------------------------------------------------------------------------
WineProposal(product_id, message_id, group_id, rank, mode, journey_id, reason, is_selected, selected_at) ==
    [product_id |-> product_id, message_id |-> message_id,
     proposal_group_id |-> group_id, proposal_rank |-> rank,
     price |-> ProductPrices[product_id], proposal_reason |-> reason,
     mode |-> mode, journey_id |-> journey_id, is_selected |-> is_selected,
     selected_at |-> selected_at]

\* Product.query.get(product_id) finds a row
ProductExists(product_id) == product_id \in ProductIds

\* the loops over all_rankings or wines (lines 75-134): rank_counter is one
\* more than the number of proposals made so far
RECURSIVE SingleProposals(_, _, _, _)
SingleProposals(wines, message_id, proposal_group_id, acc) ==
    IF wines = << >> THEN acc
    ELSE LET wine == Head(wines)
             rank_counter == Len(acc) + 1
         IN  IF wine.id = NoId \/ ~ProductExists(wine.id)
             THEN SingleProposals(Tail(wines), message_id, proposal_group_id, acc)
             ELSE SingleProposals(Tail(wines), message_id, proposal_group_id,
                    Append(acc, WineProposal(wine.id, message_id, proposal_group_id,
                                    IF "rank" \in DOMAIN wine THEN wine.rank
                                    ELSE rank_counter,
                                    "single", 0,
                                    IF "reason" \in DOMAIN wine THEN wine.reason
                                    ELSE "",
                                    FALSE, 0)))

\* the loop over the wines of one journey (lines 41-64)
RECURSIVE JourneyWineProposals(_, _, _, _, _, _)
JourneyWineProposals(wines, journey_id, reason, message_id, proposal_group_id, acc) ==
    IF wines = << >> THEN acc
    ELSE LET wine == Head(wines)
         IN  IF wine.id = NoId \/ ~ProductExists(wine.id)
             THEN JourneyWineProposals(Tail(wines), journey_id, reason, message_id,
                                       proposal_group_id, acc)
             ELSE JourneyWineProposals(Tail(wines), journey_id, reason, message_id,
                    proposal_group_id,
                    Append(acc, WineProposal(wine.id, message_id, proposal_group_id,
                                    Len(acc) + 1, "journey", journey_id, reason,
                                    FALSE, 0)))

\* the loop over the journeys (lines 36-64)
RECURSIVE JourneyProposals(_, _, _, _)
JourneyProposals(js, message_id, proposal_group_id, acc) ==
    IF js = << >> THEN acc
    ELSE JourneyProposals(Tail(js), message_id, proposal_group_id,
            JourneyWineProposals(Head(js).wines, Head(js).id, Head(js).reason,
                                 message_id, proposal_group_id, acc))

\* the last fallback (lines 136-155): one proposal per id of wine_ids, which
\* a response lists in the order of its wines
RECURSIVE IdProposals(_, _, _, _)
IdProposals(wine_ids, message_id, proposal_group_id, acc) ==
    IF wine_ids = {} THEN acc
    ELSE LET product_id == CHOOSE i \in wine_ids : \A j \in wine_ids : i <= j
         IN  IdProposals(wine_ids \ {product_id}, message_id, proposal_group_id,
                IF ProductExists(product_id)
                THEN Append(acc, WineProposal(product_id, message_id,
                                    proposal_group_id, Len(acc) + 1, "single",
                                    0, None, FALSE, 0))
                ELSE acc)

\* proposals_to_create of track_wine_proposals (lines 28-155)
ProposalsToCreate(message_id, proposal_group_id, response_data) ==
    IF response_data.mode = "journey"
    THEN JourneyProposals(response_data.journeys, message_id, proposal_group_id, << >>)
    ELSE IF response_data.all_rankings # << >>
    THEN SingleProposals(response_data.all_rankings, message_id, proposal_group_id, << >>)
    ELSE IF response_data.wines # << >>
    THEN SingleProposals(response_data.wines, message_id, proposal_group_id, << >>)
    ELSE IdProposals(response_data.wine_ids, message_id, proposal_group_id, << >>)

\* a batch id that is the one of the session's first batch when there is one
NewGroupId_OfFirstBatch ==
    IF proposals = << >> THEN Len(proposals) + 1 ELSE proposals[1].proposal_group_id

\* uuid.uuid4(): an id no earlier batch has; the place of the batch's first row
NewGroupId == Len(proposals) + 1

\* the test of lines 463-469 without has_journeys and has_wine_ids
ShouldTrack_WinesOnly(r) == r.is_recommending /\ r.wines # << >>

\* is_recommending and (has_wines or has_journeys or has_wine_ids) (lines 463-469)
ShouldTrack(r) ==
    /\ r.is_recommending
    /\ (r.wines # << >> \/ r.journeys # << >> \/ r.wine_ids # {})

\* WineProposal.mark_as_selected (models/wine_proposal.py 63-66)
MarkAsSelected(row, now) == [row EXCEPT !.is_selected = TRUE, !.selected_at = now]

\* the loop of confirm_wines (lines 284-315): the most recent proposal of the
\* session for the product is marked, else a selected one is created when
\* the product exists.  The session autoflushes before each query, so a row
\* added for an earlier id of the list is found.
RECURSIVE ConfirmEach(_, _, _)
ConfirmEach(wine_ids, rows, now) ==
    IF wine_ids = << >> THEN rows
    ELSE LET wine_id == Head(wine_ids)
             found == {i \in DOMAIN rows : rows[i].product_id = wine_id}
         IN  IF found # {}
             THEN ConfirmEach(Tail(wine_ids),
                      [i \in DOMAIN rows |->
                          IF i \in found /\ \A j \in found : j <= i
                          THEN MarkAsSelected(rows[i], now) ELSE rows[i]],
                      now)
             ELSE IF ProductExists(wine_id)
             THEN ConfirmEach(Tail(wine_ids),
                      Append(rows, WineProposal(wine_id, 0, 0, 1,
                                                "single", 0, None, TRUE, now)),
                      now)
             ELSE ConfirmEach(Tail(wine_ids), rows, now)

\* ------------------------------------------------------------------------
\* Specification SpecSession: one session served by the routes of
\* routes/chat.py, its turns processed by process_b2c_message
\* ------------------------------------------------------------------------
\* the most messages a session holds
MaxMessages == 6

\* the most confirmations a session is sent
MaxConfirms == 2

\* the most ids one confirmation lists
MaxConfirmIds == 2

\* the context a request may carry: full preferences for one bottle, for a
\* journey of two bottles, and for a white wine, which the venue lacks
SessionContexts ==
    { Prefs("any", "single", NoBudget, 0),
      Prefs("any", "journey", NoBudget, 2),
      Prefs("white", "single", NoBudget, 0) }

\* the wine_ids a confirmation may list
ConfirmLists == SeqsUpTo({1, 2, UnknownId}, MaxConfirmIds)

Reply(context, status, body) == [context |-> context, status |-> status, body |-> body]

InitSession ==
    /\ available = {1, 2}
    /\ preferences = Prefs("any", "single", NoBudget, 0)
    /\ num_bottiglie_target = 0
    /\ guest_count = 2
    /\ featured_wines = << >>
    /\ message_count = 0
    /\ pc = "idle"
    /\ all_wines = << >>
    /\ llm_calls = << >>
    /\ result_json = EmptyJson
    /\ wine_selection = NoSelection
    /\ ai_response = << >>
    /\ wines_to_return = << >>
    /\ journeys = << >>
    /\ response = NoResponse
    /\ rng = IdleRng
    /\ conv = << >>
    /\ IdleStore

\* SendMessage with the counter restarted by a request that carries a context
SendMessage_CountRestarts ==
    /\ pc = "idle"
    /\ message_count + 2 <= MaxMessages
    /\ IF session_status # "active"
       THEN /\ http' = Reply(FALSE, 400, NoResponse)
            /\ UNCHANGED <<preferences, num_bottiglie_target, message_count, pc,
                           messages, llm_calls, response>>
       ELSE /\ \/ /\ http' = Reply(FALSE, 0, NoResponse)
                  /\ UNCHANGED <<preferences, num_bottiglie_target>>
               \/ \E message_context \in SessionContexts :
                     /\ http' = Reply(TRUE, 0, NoResponse)
                     /\ preferences' = message_context
                     /\ num_bottiglie_target' =
                           IF message_context.bottles_count # 0
                           THEN message_context.bottles_count
                           ELSE num_bottiglie_target
            /\ messages' = Append(messages, "user")
            /\ message_count' = IF http'.context THEN 1 ELSE message_count + 1
            /\ llm_calls' = << >>
            /\ response' = NoResponse
            /\ pc' = "start"
    /\ UNCHANGED <<available, guest_count, featured_wines, all_wines, result_json,
                   wine_selection, ai_response, wines_to_return, journeys, rng,
                   conv, session_status, proposals, clock>>

\* send_message up to the call of the agent (lines 345-406): the context of
\* the request is merged and saved, the user's message is saved and counted
SendMessage ==
    /\ pc = "idle"
    /\ message_count + 2 <= MaxMessages
    /\ IF session_status # "active"
       THEN /\ http' = Reply(FALSE, 400, NoResponse)
            /\ UNCHANGED <<preferences, num_bottiglie_target, message_count, pc,
                           messages, llm_calls, response>>
       ELSE /\ \/ /\ http' = Reply(FALSE, 0, NoResponse)
                  /\ UNCHANGED <<preferences, num_bottiglie_target>>
               \/ \E message_context \in SessionContexts :
                     /\ http' = Reply(TRUE, 0, NoResponse)
                     /\ preferences' = message_context
                     /\ num_bottiglie_target' =
                           IF message_context.bottles_count # 0
                           THEN message_context.bottles_count
                           ELSE num_bottiglie_target
            /\ messages' = Append(messages, "user")
            /\ message_count' = message_count + 1
            /\ llm_calls' = << >>
            /\ response' = NoResponse
            /\ pc' = "start"
    /\ UNCHANGED <<available, guest_count, featured_wines, all_wines, result_json,
                   wine_selection, ai_response, wines_to_return, journeys, rng,
                   conv, session_status, proposals, clock>>

\* send_message after the agent returned or raised (lines 418-504): the
\* assistant's message is saved and counted, the proposals are tracked and
\* the reply is sent.  add_message commits; a flush that fails inside
\* track_wine_proposals is swallowed there and leaves the session's
\* transaction rolled back, on which the commit of line 475 raises.
Respond ==
    /\ pc = "done"
    /\ IF response.error # "none"
       THEN /\ http' = Reply(http.context,
                             IF response.error = "ValueError" THEN 503 ELSE 500,
                             NoResponse)
            /\ UNCHANGED <<messages, message_count, proposals>>
       ELSE /\ messages' = Append(messages, "assistant")
            /\ message_count' = message_count + 1
            /\ IF ShouldTrack(response)
               THEN \/ /\ proposals' = proposals \o
                             ProposalsToCreate(Len(messages) + 1, NewGroupId, response)
                       /\ http' = Reply(http.context, 200, response)
                    \/ /\ ProposalsToCreate(Len(messages) + 1, NewGroupId, response) # << >>
                       /\ proposals' = proposals
                       /\ http' = Reply(http.context, 500, NoResponse)
               ELSE /\ proposals' = proposals
                    /\ http' = Reply(http.context, 200, response)
    /\ pc' = "idle"
    /\ all_wines' = << >>
    /\ result_json' = EmptyJson
    /\ wine_selection' = NoSelection
    /\ ai_response' = << >>
    /\ wines_to_return' = << >>
    /\ journeys' = << >>
    /\ UNCHANGED <<available, preferences, num_bottiglie_target, guest_count,
                   featured_wines, llm_calls, response, rng, conv, session_status,
                   clock>>

\* confirm_wines without the test of the session's status (lines 274-275)
ConfirmWines_IgnoresStatus ==
    /\ pc = "idle"
    /\ clock < MaxConfirms
    /\ \E wine_ids \in ConfirmLists :
          IF wine_ids = << >>
          THEN /\ http' = Reply(FALSE, 400, NoResponse)
               /\ UNCHANGED <<proposals, clock>>
          ELSE /\ proposals' = ConfirmEach(wine_ids, proposals, clock + 1)
               /\ clock' = clock + 1
               /\ http' = Reply(FALSE, 200, NoResponse)
    /\ llm_calls' = << >>
    /\ response' = NoResponse
    /\ UNCHANGED <<available, preferences, num_bottiglie_target, guest_count,
                   featured_wines, message_count, pc, all_wines, result_json,
                   wine_selection, ai_response, wines_to_return, journeys, rng,
                   conv, session_status, messages>>

\* confirm_wines (lines 247-325); the locals of the turn served before are gone
ConfirmWines ==
    /\ pc = "idle"
    /\ clock < MaxConfirms
    /\ \E wine_ids \in ConfirmLists :
          IF wine_ids = << >> \/ session_status # "active"
          THEN /\ http' = Reply(FALSE, 400, NoResponse)
               /\ UNCHANGED <<proposals, clock>>
          ELSE /\ proposals' = ConfirmEach(wine_ids, proposals, clock + 1)
               /\ clock' = clock + 1
               /\ http' = Reply(FALSE, 200, NoResponse)
    /\ llm_calls' = << >>
    /\ response' = NoResponse
    /\ UNCHANGED <<available, preferences, num_bottiglie_target, guest_count,
                   featured_wines, message_count, pc, all_wines, result_json,
                   wine_selection, ai_response, wines_to_return, journeys, rng,
                   conv, session_status, messages>>

\* end_session (lines 650-661), which submit_feedback calls on an active
\* session (lines 639-640); the locals of the turn served before are gone
EndSession ==
    /\ pc = "idle"
    /\ session_status' = "completed"
    /\ http' = Reply(FALSE, 200, NoResponse)
    /\ llm_calls' = << >>
    /\ response' = NoResponse
    /\ UNCHANGED <<available, preferences, num_bottiglie_target, guest_count,
                   featured_wines, message_count, pc, all_wines, result_json,
                   wine_selection, ai_response, wines_to_return, journeys, rng,
                   conv, messages, proposals, clock>>

NextSession ==
    \/ SendMessage
    \/ OpeningTurn
    \/ CatalogFilter
    \/ SelectWines
    \/ GenerateMessage
    \/ FallbackToLegacy
    \/ Respond
    \/ EndSession

SpecSession == InitSession /\ [][NextSession]_vars

\* ------------------------------------------------------------------------
\* Specification SpecProposals: the session's proposals under turns and
\* confirmations.  What process_b2c_message returns is drawn from the kinds
\* of response it builds; the routes are those of SpecSession.
\* ------------------------------------------------------------------------
\* a wine of a validated single-mode selection (fine_tuned_selector.py 283-294)
RankedWine(id, rank, best) ==
    [id |-> id, name |-> ProductNames[id], price |-> ProductPrices[id],
     type |-> ProductTypes[id], reason |-> "why", rank |-> rank, best |-> best]

\* a journey of a response
JourneyOf(id, ids) ==
    [id |-> id, reason |-> "why", wines |-> [i \in DOMAIN ids |-> Product(ids[i])]]

\* the responses of a turn in RECOMMENDING: two ranked wines, one ranked
\* wine, two journeys of two bottles, a wine found by the legacy path, no
\* wine available, an error
RecommendingResponses ==
    { SingleResponse("communication",
                     <<RankedWine(1, 1, "True"), RankedWine(2, 2, "False")>>),
      SingleResponse("template", <<RankedWine(2, 1, "True")>>),
      JourneyResponse("communication",
                      <<JourneyOf(1, <<1, 2>>), JourneyOf(2, <<2, 1>>)>>),
      LegacySingleResponse(<<Product(1)>>),
      NoWinesResponse,
      ErrorResponse("ValueError") }

\* process_b2c_message returns (ai_agent.py 77-82: the opening branch is
\* taken on message_count <= 1)
AgentResponds ==
    /\ pc = "start"
    /\ IF message_count <= 1
       THEN response' = OpeningResponse("opening")
       ELSE response' \in RecommendingResponses
    /\ pc' = "done"
    /\ UNCHANGED <<available, preferences, num_bottiglie_target, guest_count,
                   featured_wines, message_count, all_wines, llm_calls, result_json,
                   wine_selection, ai_response, wines_to_return, journeys, rng,
                   conv, session_status, messages, proposals, clock, http>>

NextProposals ==
    \/ SendMessage
    \/ AgentResponds
    \/ Respond
    \/ ConfirmWines
    \/ EndSession

SpecProposals == InitSession /\ [][NextProposals]_vars

\* the selected proposals of the session for a product
SelectedRows(product_id) ==
    {i \in DOMAIN proposals :
        proposals[i].product_id = product_id /\ proposals[i].is_selected}

\* C11: confirming is idempotent per item: whatever turns and confirmations
\* the session has served, and however often an id was confirmed, the
\* session holds at most one selected Proposal for that id (exactly one once
\* the id was confirmed).
C11_OneSelectedPerItem ==
    \A product_id \in ProductIds : Cardinality(SelectedRows(product_id)) <= 1

\* C11, the failing case reached: product 1 was proposed, confirmed, proposed
\* again in a later batch and confirmed again; both proposals are selected.
C11_TwoSelectedForOneItem ==
    \E i, j \in SelectedRows(1) :
        /\ i < j
        /\ proposals[i].proposal_group_id # proposals[j].proposal_group_id
        /\ proposals[i].selected_at < proposals[j].selected_at

\* C12: a selection is set once and never unset: in every step, a Proposal
\* whose selected flag is set is still there afterwards with the flag set
\* and the same selection timestamp, whatever the step is (a repeated
\* confirmation, a later recommendation, the end of the session).
C12_SelectedNeverRewritten ==
    [][\A i \in DOMAIN proposals :
          proposals[i].is_selected =>
              /\ i \in DOMAIN proposals'
              /\ proposals'[i].is_selected
              /\ proposals'[i].selected_at = proposals[i].selected_at]_vars

\* C12, the failing case reached: two Proposals created by confirmations
\* (no message), the earlier row carrying the later timestamp: it was
\* created selected by the first confirmation and stamped again by the second.
C12_StampedAgain ==
    \E i, j \in DOMAIN proposals :
        /\ i < j
        /\ proposals[i].message_id = 0 /\ proposals[j].message_id = 0
        /\ proposals[i].is_selected /\ proposals[j].is_selected
        /\ proposals[i].selected_at > proposals[j].selected_at

\* the rows of the batch tracked for the response just sent
LastBatch ==
    {i \in DOMAIN proposals :
        /\ proposals[i].message_id # 0
        /\ proposals[i].message_id = Len(messages)}

\* a single-mode response was sent and its proposals were tracked
SingleBatchSent ==
    /\ pc = "idle"
    /\ http.status = 200
    /\ http.body.mode = "single"
    /\ LastBatch # {}

\* C13: in the batch persisted for a single-mode response the ranks are
\* 1-based and pairwise distinct, at most one Proposal has rank 1, and the
\* Proposal of rank 1 is the wine the response marks best.
C13_BatchRanks ==
    SingleBatchSent =>
        /\ \A i \in LastBatch : proposals[i].proposal_rank >= 1
        /\ \A i, j \in LastBatch :
              i # j => proposals[i].proposal_rank # proposals[j].proposal_rank
        /\ \A i \in LastBatch :
              (proposals[i].proposal_rank = 1 /\ http.body.has_all_rankings) =>
                  \E k \in DOMAIN http.body.all_rankings :
                      /\ http.body.all_rankings[k].id = proposals[i].product_id
                      /\ http.body.all_rankings[k].best = "True"

\* C13, a failing case reached: the batch of a single-mode response holds
\* two Proposals of the same rank
C13_TwoOfOneRank ==
    /\ SingleBatchSent
    /\ \E i, j \in LastBatch :
          i # j /\ proposals[i].proposal_rank = proposals[j].proposal_rank

\* a turn was processed; it was handled in OPENING when the response is the
\* opening one, else in RECOMMENDING
TurnProcessed == pc = "done"

HandledInOpening == response.is_opening

\* an earlier turn of the session was answered
FirstTurnAnswered == \E i \in DOMAIN messages : messages[i] = "assistant"

\* the message is the first of the session and carries full preferences
FirstWithPreferences == messages = <<"user">> /\ http.context

\* C14: a turn is handled in RECOMMENDING exactly when the first turn of the
\* session has been answered or the message is a first message that carries
\* full structured preferences; every other turn is handled in OPENING.
C14_RecommendingInTwoCases ==
    TurnProcessed =>
        (~HandledInOpening <=> (FirstTurnAnswered \/ FirstWithPreferences))

\* C14, the failing case reached: the first message of the session carries
\* preferences for a journey of two bottles and is handled in OPENING
C14_PreferencesHandledInOpening ==
    /\ TurnProcessed
    /\ FirstWithPreferences
    /\ preferences.journey_preference = "journey"
    /\ HandledInOpening
    /\ response.wine_ids = {}

\* use_opening_prompt (ai_agent.py 80-82) on the session's counter
UseOpeningPrompt == message_count <= 1

\* C15: the phase never goes backward: every processed turn is handled in
\* the phase the session's counter gives, and once the counter gives
\* RECOMMENDING no step of any turn, answered or failed, brings it back to
\* OPENING.
C15_PhaseNeverBackward ==
    /\ [](TurnProcessed => (HandledInOpening <=> UseOpeningPrompt))
    /\ [][~UseOpeningPrompt => ~UseOpeningPrompt']_vars

\* C15, the case reached: the second turn failed (its message has no
\* answer), and the third turn is handled in RECOMMENDING
C15_RecommendingAfterFailedTurn ==
    /\ TurnProcessed
    /\ messages = <<"user", "assistant", "user", "user">>
    /\ ~HandledInOpening
    /\ response.is_recommending

\* C16: every turn handled in OPENING, also one whose model call failed or
\* returned nothing, returns no wine, no wine id and no journey, is not
\* recommending, is answered with success and creates no Proposal.
C16_OpeningRecommendsNothing ==
    /\ []((TurnProcessed /\ HandledInOpening) =>
              /\ response.error = "none"
              /\ response.wines = << >>
              /\ response.all_rankings = << >>
              /\ response.wine_ids = {}
              /\ response.journeys = << >>
              /\ ~response.is_recommending)
    /\ [][(TurnProcessed /\ HandledInOpening) =>
              /\ proposals' = proposals
              /\ http'.status = 200
              /\ http'.body = response]_vars

\* C16, the case reached: the model call of the opening turn failed; the
\* greeting was sent with no wine and the session has no Proposal
C16_FailedOpeningAnswered ==
    /\ pc = "idle"
    /\ llm_calls = <<Call("opening", "error")>>
    /\ messages = <<"user", "assistant">>
    /\ http.status = 200
    /\ http.body.is_opening
    /\ http.body.wines = << >>
    /\ proposals = << >>

\* the calls of the legacy model made for the request
LegacyCalls == {i \in DOMAIN llm_calls : llm_calls[i].model = "legacy"}

\* C17: in RECOMMENDING an exception of the two-stage path reaches the
\* caller only after the legacy fallback was attempted and failed too: a
\* request that ends with an error has called the legacy model, its last
\* call is a legacy call, and no legacy call of it succeeded; a request
\* whose selection call raised has called the legacy model.
C17_LegacyBeforeError ==
    TurnProcessed =>
        /\ response.error # "none" =>
              /\ LegacyCalls # {}
              /\ Len(llm_calls) \in LegacyCalls
              /\ \A i \in LegacyCalls : llm_calls[i].outcome \in {"error", "none"}
        /\ (\E i \in DOMAIN llm_calls : llm_calls[i] = Call("selection", "error"))
              => LegacyCalls # {}

\* C17, the case reached: the selection call raised, the legacy call raised
\* too, and only then the request ends with an error
C17_ErrorAfterLegacyFailed ==
    /\ TurnProcessed
    /\ llm_calls = <<Call("selection", "error"), Call("legacy", "error")>>
    /\ response.error # "none"

\* a model call of the request just served raised
UpstreamError == \E i \in DOMAIN llm_calls : llm_calls[i].outcome = "error"

\* send_message has replied to the turn
TurnAnswered == pc = "idle" /\ http.status \in {200, 500, 503}

\* C18: an error of the upstream model in any call of a turn (opening,
\* selection, communication, legacy) is replied with HTTP 503, never with
\* a normal response and never with another error status.
C18_UpstreamErrorIs503 ==
    (TurnAnswered /\ UpstreamError) => http.status = 503

\* C18, a failing case reached: the communication call raised and the turn
\* is answered 200 with the template text
C18_ErrorAnswered200 ==
    /\ TurnAnswered
    /\ llm_calls = <<Call("selection", "json"), Call("communication", "error")>>
    /\ http.status = 200
    /\ http.body.message = "template"

\* C18, another failing case reached: the selection call and the legacy
\* call raised and the turn is answered 500
C18_ErrorAnswered500 ==
    /\ TurnAnswered
    /\ llm_calls = <<Call("selection", "error"), Call("legacy", "error")>>
    /\ http.status = 500

\* the selection model was called and no call of the request raised
TransportSucceeded ==
    /\ \E i \in DOMAIN llm_calls : llm_calls[i].model = "selection"
    /\ \A i \in DOMAIN llm_calls : llm_calls[i].outcome # "error"

\* C19: malformed output of the selection model never surfaces as an error:
\* when no model call of the turn raised, the turn ends with a normal
\* response.
C19_MalformedSelectionRecovered ==
    (TurnProcessed /\ TransportSucceeded) => response.error = "none"

\* C19, the failing case reached: the selection model returned JSON that
\* does not parse, the legacy model returned a message without text, twice,
\* and the turn ends with an error although no call raised
C19_NoTextSurfaces ==
    /\ TurnProcessed
    /\ llm_calls = <<Call("selection", "bad_json"), Call("legacy", "none"),
                     Call("legacy", "none")>>
    /\ response.error = "ValueError"

\* the agent returned a response for the turn that send_message replied to
ResponseReturned == TurnAnswered /\ response # NoResponse /\ response.error = "none"

\* C20: whatever happens while the proposals are persisted, the reply to a
\* turn whose response the agent returned is that response (same message,
\* wines and journeys) with status 200, and the assistant's message stays
\* saved.
C20_TrackingNeverChangesReply ==
    ResponseReturned =>
        /\ http.status = 200
        /\ http.body = response
        /\ messages[Len(messages)] = "assistant"

\* C20, the failing case reached: the agent returned a recommendation, the
\* flush of its proposals failed, and the turn is answered 500 without the
\* response; the assistant's message is saved and no Proposal is
C20_FlushFailureAnswered500 ==
    /\ ResponseReturned
    /\ response.is_recommending
    /\ response.wine_ids # {}
    /\ http.status = 500
    /\ http.body = NoResponse
    /\ messages[Len(messages)] = "assistant"
    /\ proposals = << >>

\* the wines a response lists, in wines, all_rankings and the journeys
ResponseWines(r) ==
    Range(r.wines) \cup Range(r.all_rankings)
        \cup UNION {Range(r.journeys[j].wines) : j \in DOMAIN r.journeys}

\* the wine is an item of the filtered catalog, with its id, name and price
InCatalog(w) ==
    \E k \in DOMAIN all_wines :
        /\ all_wines[k].id = w.id
        /\ all_wines[k].name = w.name
        /\ all_wines[k].price = w.price

\* C21: in the response of every path (two-stage, fallback ranking, legacy
\* extraction, legacy journeys) every wine of wines, all_rankings and the
\* journeys is an item of the request's filtered catalog with the catalog's
\* id, name and price, whatever the models returned.
C21_OnlyCatalogWines ==
    TurnProcessed => \A w \in ResponseWines(response) : InCatalog(w)

\* C21, the case reached: the selection model named a wine the catalog does
\* not hold and one it holds; the response lists wines
C21_UnknownWineDropped ==
    /\ TurnProcessed
    /\ \E i \in DOMAIN result_json.wines : result_json.wines[i].id = UnknownId
    /\ response.has_all_rankings
    /\ response.wines # << >>
    /\ UnknownId \notin response.wine_ids

\* the turn returned a single-mode response that recommends wines
SingleRecommended ==
    /\ TurnProcessed
    /\ response.mode = "single"
    /\ response.is_recommending
    /\ response.wine_ids # {}

\* C22: every single-mode response that recommends wines, whichever path
\* produced it, carries all_rankings ordered by ascending rank, and its
\* wines are the first three entries of all_rankings (all of them when
\* there are fewer), so never more than three.
C22_TopThreeOfAllRankings ==
    SingleRecommended =>
        /\ response.has_all_rankings
        /\ \A i, j \in DOMAIN response.all_rankings :
              i < j => response.all_rankings[i].rank <= response.all_rankings[j].rank
        /\ response.wines = Slice(response.all_rankings, 0, 3)
        /\ Len(response.wines) <= 3

\* C22, the failing case reached: the legacy path found wines in the text
\* and its response lists them in wines with no all_rankings
C22_LegacyWithoutRankings ==
    /\ SingleRecommended
    /\ response.message = "legacy"
    /\ response.wines # << >>
    /\ ~response.has_all_rankings
    /\ response.all_rankings = << >>

\* no entry of the model's reply resolves to a wine of the catalog
NoUsableItem ==
    \A i \in DOMAIN result_json.wines : Resolve(all_wines, result_json.wines[i]) = 0

AcceptedIds == {all_wines[i].id : i \in {k \in DOMAIN all_wines : Strip(all_wines[k].name) # << >> /\ Accepted(MatchOf(ai_response, all_wines[k]))}} \ {NoId}

RECURSIVE JourneyItems(_)
JourneyItems(js) ==
    IF js = << >> THEN << >>
    ELSE [k \in DOMAIN Head(js).wines |->
             [id |-> Head(js).wines[k].id, journey_id |-> Head(js).id,
              reason |-> Head(js).reason]] \o JourneyItems(Tail(js))

\* the items a response surfaces: the wines of its journeys, or all_rankings,
\* or without rankings the wines the extractor found
SurfacedItems(r) ==
    IF r.mode = "journey" THEN JourneyItems(r.journeys)
    ELSE IF r.all_rankings # << >>
    THEN r.all_rankings
    ELSE r.wines

\* the rows of the last batch, in insertion order
BatchRows == SelectIdx(proposals, LastBatch)

\* a recommending turn returned: the route replied 200 with the response
RecommendingReturned ==
    /\ pc = "idle"
    /\ http.status = 200
    /\ http.body = response
    /\ response.is_recommending

\* C25: after a recommending turn returns, the store holds exactly one
\* Proposal per surfaced item (every item of all_rankings in single mode,
\* every wine of every journey), all of one batch id, linked to the
\* assistant's message, unselected, with the rank and the rationale of the
\* validated structure when it has them and else the item's position.
C25_OneProposalPerSurfacedItem ==
    RecommendingReturned =>
        LET items == SurfacedItems(response)
            rows  == BatchRows
        IN  /\ messages[Len(messages)] = "assistant"
            /\ Len(rows) = Len(items)
            /\ \A k \in DOMAIN rows :
                  /\ k \in DOMAIN items
                  /\ rows[k].product_id = items[k].id
                  /\ rows[k].proposal_group_id = rows[1].proposal_group_id
                  /\ rows[k].message_id = Len(messages)
                  /\ ~rows[k].is_selected /\ rows[k].selected_at = 0
                  /\ rows[k].mode = response.mode
                  /\ rows[k].proposal_rank =
                        IF "rank" \in DOMAIN items[k] THEN items[k].rank ELSE k
                  /\ "reason" \in DOMAIN items[k]
                        => rows[k].proposal_reason = items[k].reason
                  /\ "journey_id" \in DOMAIN items[k]
                        => rows[k].journey_id = items[k].journey_id
            /\ \A i \in DOMAIN proposals \ LastBatch :
                  rows # << >> =>
                      proposals[i].proposal_group_id # rows[1].proposal_group_id

\* C25, cases reached: two journeys of two wines each tracked as four rows of
\* ranks 1..4 carrying the journeys' reasons
C25_JourneyBatchTracked ==
    /\ RecommendingReturned
    /\ response.mode = "journey"
    /\ Len(response.journeys) = 2
    /\ Len(BatchRows) = 4
    /\ BatchRows[3].journey_id = 2
    /\ BatchRows[3].proposal_rank = 3
    /\ BatchRows[3].proposal_reason = "why"

\* C26: a repeated recommending request produces a new batch under a fresh
\* batch id and leaves every earlier Proposal as it was (rank, price, batch
\* id, journey index, reason, selected flag and timestamp): in every step
\* that answers a turn, the rows held before are unchanged, the rows added
\* share one batch id that no earlier row has, and a recommending response
\* answered 200 adds at least one row.
C26_RetryAddsFreshBatch ==
    [][(pc = "done" /\ pc' = "idle") =>
          LET old == DOMAIN proposals
              new == DOMAIN proposals' \ DOMAIN proposals
          IN  /\ Len(proposals') >= Len(proposals)
              /\ \A i \in old : proposals'[i] = proposals[i]
              /\ \A j \in new :
                    /\ proposals'[j].proposal_group_id
                          = proposals'[Len(proposals) + 1].proposal_group_id
                    /\ proposals'[j].price = ProductPrices[proposals'[j].product_id]
                    /\ \A i \in old :
                          proposals[i].proposal_group_id # proposals'[j].proposal_group_id
              /\ (http'.status = 200 /\ response.is_recommending
                     /\ SurfacedItems(response) # << >>) => new # {}]_vars

\* C26, the case reached: the same wine was recommended with the same rank
\* by two turns; the rows are in two batches, and the earlier one, selected
\* in between, is still selected with its rank and price.
C26_SameWineInTwoBatches ==
    \E i, j \in DOMAIN proposals :
        /\ i < j
        /\ proposals[i].message_id # 0 /\ proposals[j].message_id # 0
        /\ proposals[i].message_id < proposals[j].message_id
        /\ proposals[i].product_id = proposals[j].product_id
        /\ proposals[i].proposal_rank = proposals[j].proposal_rank
        /\ proposals[i].price = proposals[j].price
        /\ proposals[i].proposal_group_id # proposals[j].proposal_group_id
        /\ proposals[i].is_selected /\ ~proposals[j].is_selected

\* the turn was answered by the legacy path with journeys
LegacyJourneys ==
    /\ TurnProcessed
    /\ response.message = "legacy"
    /\ response.mode = "journey"

\* C27: every journey of a response of the legacy path holds at least one
\* wine and at most the target bottle count (the bottles_count of the
\* preferences, else the count calculate_bottles_needed derives from the
\* guests), for every guest count and preference state.
C27_LegacyJourneySize ==
    LegacyJourneys =>
        \A j \in DOMAIN response.journeys :
            /\ Len(response.journeys[j].wines) >= 1
            /\ Len(response.journeys[j].wines) <= LegacyBottles

\* C27, the failing case reached: one guest and no bottles_count, so the
\* count derived is 0; the text names a wine, and the response recommends a
\* single journey that holds no wine.
C27_EmptyJourneyForOneGuest ==
    /\ LegacyJourneys
    /\ guest_count = 1
    /\ preferences.bottles_count = 0
    /\ CalculateBottlesNeeded(guest_count) = 0
    /\ wines_to_return # << >>
    /\ Len(response.journeys) = 1
    /\ response.journeys[1].wines = << >>
    /\ response.is_recommending

\* the validator returned journeys
JourneysValidated == pc = "validated" /\ wine_selection.journeys # << >>

\* C28: every journey the validator accepts consists of distinct catalog
\* items: each wine is an item of the filtered catalog and no id occurs
\* twice in one journey.
C28_JourneyWinesDistinct ==
    JourneysValidated =>
        \A j \in DOMAIN wine_selection.journeys :
            LET ws == wine_selection.journeys[j].wines
            IN  /\ \A i \in DOMAIN ws : InCatalog(ws[i])
                /\ \A i, k \in DOMAIN ws : i # k => ws[i].id # ws[k].id

\* C28, the failing case reached: the model's reply lists wine 1 twice in a
\* journey of two bottles; the journey is accepted with the wine twice.
C28_SameWineTwiceAccepted ==
    /\ JourneysValidated
    /\ preferences.bottles_count = 2
    /\ \E j \in DOMAIN wine_selection.journeys :
          /\ Len(wine_selection.journeys[j].wines) = 2
          /\ wine_selection.journeys[j].wines[1].id = 1
          /\ wine_selection.journeys[j].wines[2].id = 1

\* the session was ended, by end_session or by a feedback
SessionEnded == session_status # "active"

\* C29: once a session is ended its status never returns to 'active', and
\* every later send_message or confirmation is rejected with an error and
\* leaves the messages, the message count, the Proposals and their selected
\* flags as they were.
C29_EndedSessionRejects ==
    [][SessionEnded =>
          /\ session_status' # "active"
          /\ (SendMessage \/ ConfirmWines) =>
                /\ http'.status = 400
                /\ http'.body = NoResponse
          /\ messages' = messages
          /\ message_count' = message_count
          /\ proposals' = proposals]_vars

\* C29, the case reached: a wine was recommended and selected, the session
\* was ended, and a later request was answered 400; the rows are as before
C29_RejectedAfterEnd ==
    /\ SessionEnded
    /\ http.status = 400
    /\ pc = "idle"
    /\ clock < MaxConfirms
    /\ message_count + 2 <= MaxMessages
    /\ \E i, j \in DOMAIN proposals :
          proposals[i].is_selected /\ ~proposals[j].is_selected

\* ------------------------------------------------------------------------
\* Specification SpecConfirm: two confirm_wines requests of one session
\* served at the same time, each in its own database session.  A request
\* sees the committed rows; what it adds or marks is seen by the other
\* request once it has committed (line 315).
\* ------------------------------------------------------------------------
\* the rows the session holds when the requests arrive
PriorProposals ==
    { << >>,
      <<WineProposal(1, 2, 1, 1, "single", 0, "why", FALSE, 0)>>,
      <<WineProposal(1, 2, 1, 1, "single", 0, "why", FALSE, 0),
        WineProposal(2, 2, 1, 2, "single", 0, "why", FALSE, 0)>> }

\* a request that confirms one wine
ConfirmRequest(wine_id) ==
    [pc |-> "start", wine_id |-> wine_id, found |-> 0, at |-> 0, status |-> 0]

InitConfirm ==
    /\ available = {1, 2}
    /\ preferences = Prefs("any", "single", NoBudget, 0)
    /\ num_bottiglie_target = 0
    /\ guest_count = 2
    /\ featured_wines = << >>
    /\ message_count = 2
    /\ pc = "confirm"
    /\ all_wines = << >>
    /\ llm_calls = << >>
    /\ result_json = EmptyJson
    /\ wine_selection = NoSelection
    /\ ai_response = << >>
    /\ wines_to_return = << >>
    /\ journeys = << >>
    /\ response = NoResponse
    /\ rng = IdleRng
    /\ conv \in [1..2 -> {ConfirmRequest(w) : w \in {1, 2, UnknownId}}]
    /\ session_status \in {"active", "completed"}
    /\ messages = <<"user", "assistant">>
    /\ proposals \in PriorProposals
    /\ clock = 0
    /\ http = NoReply

ConfirmFrame ==
    UNCHANGED <<available, preferences, num_bottiglie_target, guest_count,
                featured_wines, message_count, pc, all_wines, llm_calls, result_json,
                wine_selection, ai_response, wines_to_return, journeys, response,
                rng, session_status, messages>>

\* confirm_wines of request r up to the commit (lines 258-313): the status
\* is tested, the most recent proposal of the wine is looked up among the
\* committed rows and marked, or a selected one is made when the product exists
ConfirmLookup(r) ==
    /\ conv[r].pc = "start"
    /\ IF session_status # "active"
       THEN /\ conv' = [conv EXCEPT ![r].pc = "done", ![r].status = 400]
            /\ http' = Reply(FALSE, 400, NoResponse)
            /\ clock' = clock
       ELSE LET rows == {i \in DOMAIN proposals :
                            proposals[i].product_id = conv[r].wine_id}
            IN  /\ conv' = [conv EXCEPT ![r].pc = "commit",
                                        ![r].at = clock + 1,
                                        ![r].found =
                                           IF rows = {} THEN 0
                                           ELSE CHOOSE i \in rows : \A j \in rows : j <= i]
                /\ clock' = clock + 1
                /\ http' = http
    /\ proposals' = proposals
    /\ ConfirmFrame

\* db.session.commit() of request r (line 315) and its reply: the mark or
\* the new row of the request reaches the table
ConfirmCommit(r) ==
    /\ conv[r].pc = "commit"
    /\ proposals' =
          IF conv[r].found # 0
          THEN [proposals EXCEPT ![conv[r].found] = MarkAsSelected(@, conv[r].at)]
          ELSE IF ProductExists(conv[r].wine_id)
          THEN Append(proposals, WineProposal(conv[r].wine_id, 0, 0, 1, "single",
                                              0, None, TRUE, conv[r].at))
          ELSE proposals
    /\ conv' = [conv EXCEPT ![r].pc = "done", ![r].status = 200]
    /\ http' = Reply(FALSE, 200, NoResponse)
    /\ clock' = clock
    /\ ConfirmFrame

NextConfirm == \E r \in 1..2 : ConfirmLookup(r) \/ ConfirmCommit(r)

SpecConfirm == InitConfirm /\ [][NextConfirm]_vars

\* both requests confirmed the same wine, which had no Proposal, and were served
SameWineConfirmedTwice ==
    /\ pc = "confirm"
    /\ conv[1].pc = "done" /\ conv[2].pc = "done"
    /\ conv[1].status = 200 /\ conv[2].status = 200
    /\ conv[1].wine_id = conv[2].wine_id
    /\ conv[1].found = 0 \/ conv[2].found = 0

\* C30: two confirm requests for the same id of one session, served at the
\* same time when the item has no Proposal yet, leave exactly one selected
\* Proposal for it: no interleaving of lookup and insert makes two.
C30_OneSelectedWhenConcurrent ==
    SameWineConfirmedTwice =>
        (ProductExists(conv[1].wine_id)
            => Cardinality(SelectedRows(conv[1].wine_id)) = 1)

\* C30, the failing case reached: both requests looked wine 1 up before
\* either committed, found nothing, and each inserted a selected row
C30_TwoSelectedRowsInserted ==
    /\ SameWineConfirmedTwice
    /\ conv[1].wine_id = 1
    /\ conv[1].found = 0 /\ conv[2].found = 0
    /\ Cardinality(SelectedRows(1)) = 2
    /\ \A i \in SelectedRows(1) : proposals[i].message_id = 0

====
